---------------------------- MODULE Spec2Model ----------------------------
(***************************************************************************)
(* A model of the message-processing core of scpi-rs: the mnemonic         *)
(* matcher (Token::mnemonic_compare, mnemonic_split_index, eq_mnemonic)    *)
(* and the lexer (Tokenizer, an Iterator over the bytes of a program       *)
(* message), both of scpi/src/tokenizer.rs.                                *)
(*                                                                         *)
(* Bytes are their ASCII codes, so that the classification and the case    *)
(* folding of the source (u8::is_ascii_digit, to_ascii_lowercase, ...) are *)
(* computed, not assumed.  A byte string (&[u8]) is a sequence of bytes.   *)
(***************************************************************************)
EXTENDS Integers, Sequences, FiniteSets, TLC

VARIABLES
    \* ---- the matcher's inputs and results -------------------------------
    canonical,      \* the `mnemonic` argument: a canonical mnemonic of a tree node
    received,       \* the `s` argument: the bytes received
    received2,      \* a second received string, compared with the same canonical
    op,             \* which function has been applied to the inputs
    cmp,            \* mnemonic_compare(canonical, received)
    cmp2,           \* mnemonic_compare(canonical, received2)
    eqm,            \* ProgramMnemonic(received).eq_mnemonic(canonical)
    eqm2,           \* ProgramMnemonic(received2).eq_mnemonic(canonical)
    split,          \* mnemonic_split_index(received)
    \* ---- the lexer -------------------------------------------------------
    buf,            \* the buffer the Tokenizer was built on
    tk,             \* the Tokenizer: chars (the bytes left), in_header, in_common, in_numeric
    out,            \* what the calls of next() returned so far, oldest first
    before,         \* the tokenizer each of these calls started from
    ended,          \* next() has returned None
    overflow_checks, \* the build checks integer overflow (debug) or wraps (release)
    call,           \* the last call of another operation: its arguments and result
    operand,        \* the Token a conversion is applied to
    \* ---- the device -----------------------------------------------------
    dev,            \* the TestDevice: esr, ese, sre, operation, questionable, errors
    nunits,         \* the number of steps taken on the device so far
    \* ---- the dispatcher -------------------------------------------------
    path            \* the saved header path: the names from the root to a node

matchVars == <<canonical, received, received2, op, cmp, cmp2, eqm, eqm2, split>>
lexVars == <<buf, tk, out, before, ended, overflow_checks, call, operand>>
devVars == <<dev, nunits, path>>
vars == <<canonical, received, received2, op, cmp, cmp2, eqm, eqm2, split,
          buf, tk, out, before, ended, overflow_checks, call, operand,
          dev, nunits, path>>

-----------------------------------------------------------------------------
(* Bounds of the model.                                                    *)

\* The longest received mnemonic the matcher is applied to.
MaxRecvLen == 3
\* The longest canonical mnemonic of the matcher's inputs.
MaxCanonLen == 4
\* The most calls of next() made on one buffer.
MaxCalls == 8
\* The longest buffer of the lexer's unstructured inputs.
MaxBufLen == 5
\* The most bytes that follow a data item of the lexer's inputs.
MaxTailLen == 3
\* The longest run of mnemonic or suffix bytes of the lexer's inputs.
MaxRunLen == 14
\* The most bytes after the opening quote of a string of the lexer's inputs.
MaxStrLen == 4
\* The most bytes after `#` of a block of the lexer's inputs.
MaxBlockLen == 5
\* The most bytes after the radix letter of a non-decimal number of the
\* lexer's inputs.
MaxRadixLen == 3
\* The most bytes after the header of the inputs of next_data and
\* next_separator.
MaxArgLen == 3
\* The longest body of a buffer of the totality inputs, and the longest header
\* buffer.
MaxTotalLen == 3
MaxHeadLen == 5
\* The most units of a program message.
MaxMsgUnits == 4
\* The longest prefix before the byte whose position decides its token.
MaxPreLen == 3
\* The most bytes that follow the unit `A 1` in a buffer.
MaxSufLen == 4
\* The most digits that follow the long non-decimal literals.
MaxWideLen == 2
\* The most bytes after the header of the inputs of next_decimal.
MaxDecLen == 4
\* The most steps taken on the device: units executed and changes of condition.
MaxUnits == 4

-----------------------------------------------------------------------------
(* Bytes and their classes (core::u8).                                     *)

\* The byte literals the source names.
Ch == [ star |-> 42, colon |-> 58, query |-> 63, semi |-> 59, nl |-> 10,
        comma |-> 44, slash |-> 47, minus |-> 45, plus |-> 43, dot |-> 46,
        hash |-> 35, squote |-> 39, dquote |-> 34, lparen |-> 40,
        rparen |-> 41, underscore |-> 95, space |-> 32, zero |-> 48,
        lower_a |-> 97, upper_a |-> 65, lower_e |-> 101, upper_e |-> 69 ]

is_ascii(b) == b \in 0..127
is_ascii_digit(b) == b \in 48..57
is_ascii_uppercase(b) == b \in 65..90
is_ascii_lowercase(b) == b \in 97..122
is_ascii_alphabetic(b) == is_ascii_uppercase(b) \/ is_ascii_lowercase(b)
is_ascii_alphanumeric(b) == is_ascii_alphabetic(b) \/ is_ascii_digit(b)
\* U+0020 SPACE, U+0009 TAB, U+000A LINE FEED, U+000C FORM FEED, U+000D CR.
is_ascii_whitespace(b) == b \in {32, 9, 10, 12, 13}

to_ascii_lowercase(b) == IF is_ascii_uppercase(b) THEN b + 32 ELSE b

\* A variant that folds nothing: bytes are compared as they are.
eq_exact_case(a, b) == a = b

eq_ignore_ascii_case(a, b) == to_ascii_lowercase(a) = to_ascii_lowercase(b)

Min(S) == CHOOSE x \in S : \A y \in S : x <= y
Max(S) == CHOOSE x \in S : \A y \in S : x >= y

\* All byte strings over the alphabet A of length at most n.
Strs(A, n) == UNION {[1..k -> A] : k \in 0..n}

\* seq without its first n elements (a slice &s[n..]).
Drop(seq, n) == SubSeq(seq, n + 1, Len(seq))
\* the first n elements of seq (a slice &s[..n]).
Take(seq, n) == SubSeq(seq, 1, n)

-----------------------------------------------------------------------------
(* The mnemonic matcher.                                                   *)

None == [some |-> FALSE, stem |-> <<>>, index |-> <<>>]
Some(a, b) == [some |-> TRUE, stem |-> a, index |-> b]

\* A variant that splits one byte too early: split_at(index).
mnemonic_split_index_early(mnemonic) ==
    LET nondigits == {p \in 1..Len(mnemonic) : ~is_ascii_digit(mnemonic[p])}
    IN  IF nondigits = {} THEN None
        ELSE LET index == Max(nondigits)
             IN  IF index = Len(mnemonic) THEN None
                 ELSE Some(Take(mnemonic, index - 1), Drop(mnemonic, index - 1))

\* Token::mnemonic_split_index.  rposition is the last position holding a
\* non-digit; positions here count from 1, so split_at(index + 1) of the
\* source is the split after position index.
mnemonic_split_index(mnemonic) ==
    LET nondigits == {p \in 1..Len(mnemonic) : ~is_ascii_digit(mnemonic[p])}
    IN  IF nondigits = {} THEN None
        ELSE LET index == Max(nondigits)
             IN  IF index = Len(mnemonic) THEN None
                 ELSE Some(Take(mnemonic, index), Drop(mnemonic, index))

\* The closure of mnemonic_compare applied to the bytes of mnemonic from
\* position i on; optional is the captured flag.  Iterator::all stops at the
\* first byte whose closure returns false.
RECURSIVE compare_all(_, _, _, _)
compare_all(mnemonic, s, i, optional) ==
    IF i > Len(mnemonic) THEN TRUE
    ELSE LET m == mnemonic[i]
             has_x == i <= Len(s)
             optional2 == IF is_ascii_lowercase(m) /\ has_x THEN FALSE ELSE optional
             ok == IF has_x
                   THEN eq_ignore_ascii_case(m, s[i])
                   ELSE ~(is_ascii_uppercase(m) \/ is_ascii_digit(m)) /\ optional2
         IN  ok /\ compare_all(mnemonic, s, i + 1, optional2)

\* A variant without the `optional` flag: a received string may stop
\* anywhere in the lowercase part.
mnemonic_compare_partial(mnemonic, s) ==
    /\ Len(mnemonic) >= Len(s)
    /\ \A i \in 1..Len(mnemonic) :
          IF i <= Len(s) THEN eq_ignore_ascii_case(mnemonic[i], s[i])
          ELSE ~(is_ascii_uppercase(mnemonic[i]) \/ is_ascii_digit(mnemonic[i]))

\* A variant whose map_or default is false: only the long form matches.
mnemonic_compare_long_only(mnemonic, s) ==
    /\ Len(mnemonic) = Len(s)
    /\ \A i \in 1..Len(mnemonic) : eq_ignore_ascii_case(mnemonic[i], s[i])

\* Token::mnemonic_compare.
mnemonic_compare(mnemonic, s) ==
    /\ Len(mnemonic) >= Len(s)
    /\ compare_all(mnemonic, s, 1, TRUE)

\* Tokens: a type and, for the types that carry one, a value.
Token(type, val) == [type |-> type, val |-> val]

\* A variant that knows no default index: an index is matched only by an index.
eq_mnemonic_no_default(token, mnemonic) ==
    IF token.type \in {"ProgramMnemonic", "CharacterProgramData"}
    THEN LET s == token.val
             a == mnemonic_split_index(mnemonic)
             b == mnemonic_split_index(s)
         IN  \/ mnemonic_compare(mnemonic, s)
             \/ /\ a.some /\ b.some
                /\ mnemonic_compare(a.stem, b.stem) /\ a.index = b.index
    ELSE FALSE

\* Token::eq_mnemonic.
eq_mnemonic(token, mnemonic) ==
    IF token.type \in {"ProgramMnemonic", "CharacterProgramData"}
    THEN LET s == token.val
             a == mnemonic_split_index(mnemonic)
             b == mnemonic_split_index(s)
         IN  \/ mnemonic_compare(mnemonic, s)
             \/ CASE ~a.some /\ ~b.some -> FALSE
                  [] a.some /\ ~b.some ->
                        mnemonic_compare(a.stem, s) /\ a.index = <<49>>
                  [] ~a.some /\ b.some ->
                        mnemonic_compare(mnemonic, b.stem) /\ b.index = <<49>>
                  [] a.some /\ b.some ->
                        mnemonic_compare(a.stem, b.stem) /\ a.index = b.index
    ELSE FALSE

-----------------------------------------------------------------------------
(* The lexer.  A Tokenizer is the record                                   *)
(*   [chars, in_header, in_common, in_numeric]                             *)
(* where chars is the part of the buffer not yet consumed (core::slice::   *)
(* Iter).  Every function that takes &mut self is an operator from the     *)
(* tokenizer to the record [t, item] of the tokenizer it leaves and the    *)
(* value it returns.  An item is Some(Ok(token)), Some(Err(code)), None,   *)
(* or a panic of the thread.  `checks` says whether the build checks       *)
(* integer overflow (a debug build) or wraps (a release build).            *)

NoToken == Token("-", <<>>)
ItemOk(token) == [kind |-> "Ok", tok |-> token, err |-> "-"]
ItemErr(code) == [kind |-> "Err", tok |-> NoToken, err |-> code]
ItemNone == [kind |-> "None", tok |-> NoToken, err |-> "-"]
ItemPanic == [kind |-> "Panic", tok |-> NoToken, err |-> "-"]
Ret(t, item) == [t |-> t, item |-> item]

\* self.chars.next(), n times.
Advance(t, n) == [t EXCEPT !.chars = Drop(@, n)]
\* How many bytes the loop `while chars.clone().next().map_or(false, P)`
\* steps over: the leading bytes of seq that satisfy P.
CountWhile(seq, P(_)) ==
    LET stop == {i \in 1..Len(seq) : ~P(seq[i])}
    IN  IF stop = {} THEN Len(seq) ELSE Min(stop) - 1

\* Tokenizer::skip_ws
skip_ws(t) == Advance(t, CountWhile(t.chars, is_ascii_whitespace))

IsSeparatorByte(c) == c = Ch.comma \/ c = Ch.semi \/ c = Ch.nl

\* A variant that accepts whatever follows the whitespace.
skip_ws_to_separator_unchecked(t, error) == [t |-> skip_ws(t), err |-> "-"]

\* Tokenizer::skip_ws_to_separator: the tokenizer after skip_ws and the error
\* returned, "-" for Ok(()).
skip_ws_to_separator(t, error) ==
    LET t1 == skip_ws(t)
    IN  IF t1.chars # <<>> /\ ~IsSeparatorByte(t1.chars[1])
        THEN [t |-> t1, err |-> error]
        ELSE [t |-> t1, err |-> "-"]

\* `let ret = Ok(token); self.skip_ws_to_separator(error)?; ret`
ThenSeparator(t, token, error) ==
    LET r == skip_ws_to_separator(t, error)
    IN  IF r.err # "-" THEN Ret(r.t, ItemErr(r.err)) ELSE Ret(r.t, ItemOk(token))

\* The length limits of the three read loops (`if len > 12`).
MnemonicMaxLen == 12
CharacterDataMaxLen == 12
SuffixMaxLen == 12

IsMnemonicByte(c) == is_ascii_alphanumeric(c) \/ c = Ch.underscore
IsSuffixByte(c) ==
    is_ascii_alphanumeric(c) \/ c = Ch.minus \/ c = Ch.slash \/ c = Ch.dot

\* A variant without the length check.
read_mnemonic_unbounded(t) ==
    LET n == CountWhile(t.chars, IsMnemonicByte)
    IN  Ret(Advance(t, n), ItemOk(Token("ProgramMnemonic", Take(t.chars, n))))

\* Tokenizer::read_mnemonic.  The loop returns the error as soon as it has
\* consumed one byte more than the limit.
read_mnemonic(t) ==
    LET n == CountWhile(t.chars, IsMnemonicByte)
    IN  IF n > MnemonicMaxLen
        THEN Ret(Advance(t, MnemonicMaxLen + 1), ItemErr("ProgramMnemonicTooLong"))
        ELSE Ret(Advance(t, n), ItemOk(Token("ProgramMnemonic", Take(t.chars, n))))

\* Tokenizer::read_character_data
read_character_data(t) ==
    LET n == CountWhile(t.chars, IsMnemonicByte)
    IN  IF n > CharacterDataMaxLen
        THEN Ret(Advance(t, CharacterDataMaxLen + 1), ItemErr("CharacterDataTooLong"))
        ELSE ThenSeparator(Advance(t, n),
                           Token("CharacterProgramData", Take(t.chars, n)),
                           "InvalidCharacterData")

\* Tokenizer::read_suffix_data
read_suffix_data(t) ==
    LET n == CountWhile(t.chars, IsSuffixByte)
    IN  IF n > SuffixMaxLen
        THEN Ret(Advance(t, SuffixMaxLen + 1), ItemErr("SuffixTooLong"))
        ELSE ThenSeparator(Advance(t, n),
                           Token("SuffixProgramData", Take(t.chars, n)),
                           "InvalidSuffix")

\* The value of a string of decimal digits.
RECURSIVE DigitsValue(_)
DigitsValue(d) ==
    IF d = <<>> THEN 0
    ELSE 10 * DigitsValue(Take(d, Len(d) - 1)) + (d[Len(d)] - Ch.zero)

\* lexical_core::parse_partial::<f32>: the longest prefix of seq that is a
\* decimal number, [sign] digits [. digits] [(e|E) [sign] digits] with a
\* digit in the mantissa, and its value neg * mant * 10^exp (exact, before
\* the rounding to f32).  ok is false when there is no such prefix (an empty
\* mantissa, an exponent mark without digits), which the source maps to
\* NumericDataError.
parse_partial_f32(seq) ==
    LET HasAt(i, S) == i <= Len(seq) /\ seq[i] \in S
        sgn == IF HasAt(1, {Ch.plus, Ch.minus}) THEN 1 ELSE 0
        a == CountWhile(Drop(seq, sgn), is_ascii_digit)
        dot == IF HasAt(sgn + a + 1, {Ch.dot}) THEN 1 ELSE 0
        b == IF dot = 1 THEN CountWhile(Drop(seq, sgn + a + 1), is_ascii_digit) ELSE 0
        m == sgn + a + dot + b
        mark == HasAt(m + 1, {Ch.lower_e, Ch.upper_e})
        esgn == IF mark /\ HasAt(m + 2, {Ch.plus, Ch.minus}) THEN 1 ELSE 0
        c == IF mark THEN CountWhile(Drop(seq, m + 1 + esgn), is_ascii_digit) ELSE 0
        e == DigitsValue(SubSeq(seq, m + 2 + esgn, m + 1 + esgn + c))
        digits == SubSeq(seq, sgn + 1, sgn + a) \o SubSeq(seq, sgn + a + 2, sgn + a + 1 + b)
    IN  IF a + b = 0 \/ (mark /\ c = 0)
        THEN [ok |-> FALSE, len |-> 0, val |-> <<>>]
        ELSE [ok |-> TRUE,
              len |-> IF mark THEN m + 1 + esgn + c ELSE m,
              val |-> [neg |-> HasAt(1, {Ch.minus}),
                       mant |-> DigitsValue(digits),
                       exp |-> (IF mark /\ HasAt(m + 2, {Ch.minus}) THEN 0 - e ELSE e) - b]]

\* Tokenizer::read_numeric_data: skip_ws only, since a suffix may follow.
read_numeric_data(t) ==
    LET p == parse_partial_f32(t.chars)
    IN  IF ~p.ok THEN Ret(t, ItemErr("NumericDataError"))
        ELSE Ret(skip_ws(Advance(t, p.len)),
                 ItemOk(Token("DecimalNumericProgramData", p.val)))

\* fn ascii_to_digit(digit: u8, radix: u8) -> Option<u32>: the digit's value,
\* -1 for None and -2 for a panic.  `radix - 10` is a u8 subtraction: below
\* radix 10 it panics when overflow is checked and wraps (mod 256) otherwise.
ascii_to_digit(digit, radix, checks) ==
    LET lowercase == to_ascii_lowercase(digit)
    IN  IF is_ascii_digit(digit) /\ digit - Ch.zero < radix
        THEN digit - Ch.zero
        ELSE IF is_ascii_alphabetic(lowercase)
             THEN IF radix < 10 /\ checks THEN -2
                  ELSE IF lowercase - Ch.lower_a < (radix - 10) % 256
                       THEN lowercase - Ch.lower_a + 10
                       ELSE -1
             ELSE -1

\* A u32 is kept as its two 16-bit halves, value = hi * 65536 + lo, so that
\* 32-bit arithmetic is exact.  d + acc * radixi for a digit d < radixi <= 16:
\* the halves of the sum and whether it exceeds u32::MAX.
U32(hi, lo) == [hi |-> hi, lo |-> lo]
MulAdd(acc, radixi, d) ==
    LET low == acc.lo * radixi + d
        high == acc.hi * radixi + (low \div 65536)
    IN  [overflow |-> high >= 65536,
         val |-> U32(high % 65536, low % 65536)]

\* The loop of read_nondecimal_data from accumulator acc on; u32 arithmetic
\* panics on overflow when checked and wraps (mod 2^32) otherwise.
RECURSIVE nondecimal_loop(_, _, _, _, _)
nondecimal_loop(t, radixi, acc, any, checks) ==
    IF t.chars # <<>> /\ is_ascii_alphanumeric(t.chars[1])
    THEN LET d == ascii_to_digit(t.chars[1], radixi, checks)
             t1 == Advance(t, 1)
             sum == MulAdd(acc, radixi, d)
         IN  IF d = -2 THEN Ret(t1, ItemPanic)
             ELSE IF d = -1 THEN Ret(t1, ItemErr("InvalidCharacterInNumber"))
             ELSE IF sum.overflow /\ checks THEN Ret(t1, ItemPanic)
             ELSE nondecimal_loop(t1, radixi, sum.val, TRUE, checks)
    ELSE IF ~any THEN Ret(t, ItemErr("NumericDataError"))
         ELSE ThenSeparator(t, Token("NonDecimalNumericProgramData", acc),
                            "InvalidSeparator")

\* Tokenizer::read_nondecimal_data
read_nondecimal_data(t, radix, checks) ==
    IF radix \in {72, 104} THEN nondecimal_loop(t, 16, U32(0, 0), FALSE, checks)
    ELSE IF radix \in {81, 113} THEN nondecimal_loop(t, 8, U32(0, 0), FALSE, checks)
    ELSE IF radix \in {66, 98} THEN nondecimal_loop(t, 2, U32(0, 0), FALSE, checks)
    ELSE Ret(t, ItemErr("NumericDataError"))

\* The loop of read_string_data; s is the slice taken after the opening quote.
RECURSIVE string_loop(_, _, _, _)
string_loop(t, s, x, ascii) ==
    IF t.chars = <<>> THEN Ret(t, ItemErr("InvalidStringData"))
    ELSE LET c == t.chars[1]
             t1 == Advance(t, 1)
         IN  IF c = x
             THEN IF t1.chars # <<>> /\ t1.chars[1] = x
                  THEN string_loop(Advance(t1, 1), s, x, ascii)
                  ELSE ThenSeparator(t1,
                          Token("StringProgramData",
                                Take(s, Len(s) - Len(t1.chars) - 1)),
                          "InvalidSeparator")
             ELSE IF ascii /\ ~is_ascii(c) THEN Ret(t1, ItemErr("InvalidCharacter"))
             ELSE string_loop(t1, s, x, ascii)

\* A variant that ends the string at the first quote, doubled or not.
read_string_data_first_quote(t, x, ascii) ==
    LET s == Drop(t.chars, 1)
        n == CountWhile(s, LAMBDA c : c # x /\ (~ascii \/ is_ascii(c)))
    IN  IF n = Len(s) THEN Ret(Advance(t, n + 1), ItemErr("InvalidStringData"))
        ELSE IF s[n + 1] # x THEN Ret(Advance(t, n + 2), ItemErr("InvalidCharacter"))
        ELSE ThenSeparator(Advance(t, n + 2), Token("StringProgramData", Take(s, n)),
                           "InvalidSeparator")

\* Tokenizer::read_string_data
read_string_data(t, x, ascii) ==
    string_loop(Advance(t, 1), Drop(t.chars, 1), x, ascii)

\* Tokenizer::read_arbitrary_data.  `rest.len() - 1` is a usize subtraction:
\* on an empty rest it panics when overflow is checked and otherwise wraps,
\* so that get() finds no such range.  `as_slice()[..len]` panics in every
\* build when fewer than len bytes are left.  lexical_core::parse::<usize>
\* succeeds when all the bytes of the length field are digits.
read_arbitrary_data(t, format, checks) ==
    LET len == ascii_to_digit(format, 10, checks)
    IN  IF len < 0 THEN Ret(t, ItemErr("InvalidBlockData"))
        ELSE IF len = 0
        THEN LET rest == t.chars
             IN  IF rest = <<>>
                 THEN IF checks THEN Ret(t, ItemPanic)
                      ELSE Ret(t, ItemErr("InvalidBlockData"))
                 ELSE IF rest[Len(rest)] # Ch.nl
                      THEN Ret(Advance(t, Len(rest)), ItemErr("InvalidBlockData"))
                      ELSE Ret(Advance(t, Len(rest)),
                               ItemOk(Token("ArbitraryBlockData",
                                            Take(rest, Len(rest) - 1))))
        ELSE IF Len(t.chars) < len THEN Ret(t, ItemPanic)
        ELSE IF \E i \in 1..len : ~is_ascii_digit(t.chars[i])
             THEN Ret(t, ItemErr("InvalidBlockData"))
        ELSE LET payload_len == DigitsValue(Take(t.chars, len))
                 t1 == Advance(t, len)
             IN  IF payload_len > Len(t1.chars)
                 THEN Ret(t1, ItemErr("InvalidBlockData"))
                 ELSE ThenSeparator(Advance(t1, payload_len),
                                    Token("ArbitraryBlockData",
                                          Take(t1.chars, payload_len)),
                                    "InvalidSeparator")

\* ILLEGAL_CHARS, or a byte that is not ASCII.
IsIllegalInExpression(c) ==
    c \in {Ch.rparen, Ch.dquote, Ch.squote, Ch.semi, Ch.lparen} \/ ~is_ascii(c)

\* Tokenizer::read_expression_data
read_expression_data(t) ==
    LET s == Drop(t.chars, 1)
        n == CountWhile(s, LAMBDA c : c # Ch.rparen)
        bad == {i \in 1..n : IsIllegalInExpression(s[i])}
    IN  IF bad # {}
        THEN Ret(Advance(t, 1 + Min(bad)), ItemErr("InvalidExpression"))
        ELSE IF n = Len(s)
        THEN Ret(Advance(t, 1 + n), ItemErr("InvalidExpression"))
        ELSE ThenSeparator(Advance(t, n + 2),
                           Token("ExpressionProgramData", Take(s, n)),
                           "InvalidSuffix")

\* `if let Some(x) = self.chars.clone().next() { if !P(x) {...} }`
NextByteFails(t, P(_)) == t.chars # <<>> /\ ~P(t.chars[1])

\* A `:` arm that does not look at in_common.
next_colon_in_common(t) ==
    LET t1 == Advance(t, 1)
    IN  IF NextByteFails(t1, is_ascii_alphabetic)
        THEN Ret(t1, ItemErr("InvalidSeparator"))
        ELSE IF ~t.in_header
             THEN Ret(t1, ItemErr("InvalidSeparator"))
             ELSE Ret(t1, ItemOk(Token("HeaderMnemonicSeparator", <<>>)))
\* The arm b':' of next: the header mnemonic separator.
next_colon(t) ==
    LET t1 == Advance(t, 1)
    IN  IF NextByteFails(t1, is_ascii_alphabetic)
        THEN Ret(t1, ItemErr("InvalidSeparator"))
        ELSE IF ~t.in_header \/ t.in_common
             THEN Ret(t1, ItemErr("InvalidSeparator"))
             ELSE Ret(t1, ItemOk(Token("HeaderMnemonicSeparator", <<>>)))

\* A `?` arm that leaves in_header set.
next_query_in_header(t) ==
    LET t1 == Advance(t, 1)
    IN  IF NextByteFails(t1, LAMBDA c : is_ascii_whitespace(c) \/ c = Ch.semi)
        THEN Ret(t1, ItemErr("InvalidSeparator"))
        ELSE IF ~t.in_header
             THEN Ret(t1, ItemErr("InvalidSeparator"))
             ELSE Ret(t1, ItemOk(Token("HeaderQuerySuffix", <<>>)))
\* The arm b'?' of next: the header query suffix.
next_query(t) ==
    LET t1 == Advance(t, 1)
    IN  IF NextByteFails(t1, LAMBDA c : is_ascii_whitespace(c) \/ c = Ch.semi)
        THEN Ret(t1, ItemErr("InvalidSeparator"))
        ELSE IF ~t.in_header
             THEN Ret(t1, ItemErr("InvalidSeparator"))
             ELSE Ret([t1 EXCEPT !.in_header = FALSE],
                      ItemOk(Token("HeaderQuerySuffix", <<>>)))

\* A `;` arm that leaves in_common as it is.
next_semi_keeping_common(t) ==
    Ret([skip_ws(Advance(t, 1)) EXCEPT !.in_header = TRUE],
        ItemOk(Token("ProgramMessageUnitSeparator", <<>>)))
\* The arm b';' of next: the program message unit separator.
next_semi(t) ==
    Ret([skip_ws(Advance(t, 1)) EXCEPT !.in_header = TRUE, !.in_common = FALSE],
        ItemOk(Token("ProgramMessageUnitSeparator", <<>>)))

\* A number arm that does not look at in_header.
next_number_in_header(t) == read_numeric_data([t EXCEPT !.in_numeric = TRUE])
\* The number arm of next: a digit, a sign or `.`.
next_number(t) ==
    IF t.in_header THEN Ret(t, ItemErr("CommandHeaderError"))
    ELSE read_numeric_data([t EXCEPT !.in_numeric = TRUE])

\* <Tokenizer as Iterator>::next, the arms of `match x` in their order.
\* The feature arbitrary-utf8-string is off, so `#s` has no arm of its own.
next(t, checks) ==
    IF t.chars = <<>> THEN Ret(t, ItemNone)
    ELSE
    LET x == t.chars[1]
        t1 == Advance(t, 1)
    IN  CASE x = Ch.star ->
               LET t2 == [t1 EXCEPT !.in_common = TRUE]
               IN  IF NextByteFails(t2, is_ascii_alphabetic)
                   THEN Ret(t2, ItemErr("CommandHeaderError"))
                   ELSE Ret(t2, ItemOk(Token("HeaderCommonPrefix", <<>>)))
          [] x = Ch.colon -> next_colon(t)
          [] x = Ch.query -> next_query(t)
          [] x = Ch.semi -> next_semi(t)
          [] x = Ch.nl ->
               Ret(t1, ItemOk(Token("ProgramMessageTerminator", <<>>)))
          [] x = Ch.comma ->
               IF t.in_header
               THEN Ret(t1, ItemErr("HeaderSeparatorError"))
               ELSE LET t2 == skip_ws([t1 EXCEPT !.in_numeric = FALSE])
                    IN  IF t2.chars # <<>> /\ IsSeparatorByte(t2.chars[1])
                        THEN Ret(t2, ItemErr("SyntaxError"))
                        ELSE Ret(t2, ItemOk(Token("ProgramDataSeparator", <<>>)))
          [] x # Ch.nl /\ is_ascii_whitespace(x) ->
               Ret([skip_ws(t) EXCEPT !.in_header = FALSE],
                   ItemOk(Token("ProgramHeaderSeparator", <<>>)))
          [] is_ascii_alphabetic(x) ->
               IF t.in_header THEN read_mnemonic(t)
               ELSE IF t.in_numeric THEN read_suffix_data(t)
               ELSE read_character_data(t)
          [] x = Ch.slash ->
               IF t.in_header THEN Ret(t, ItemErr("InvalidSeparator"))
               ELSE read_suffix_data(t)
          [] is_ascii_digit(x) \/ x \in {Ch.minus, Ch.plus, Ch.dot} -> next_number(t)
          [] x = Ch.hash ->
               IF t.in_header THEN Ret(t1, ItemErr("CommandHeaderError"))
               ELSE IF t1.chars = <<>> THEN Ret(t1, ItemErr("BlockDataError"))
               ELSE IF is_ascii_digit(t1.chars[1])
                    THEN read_arbitrary_data(Advance(t1, 1), t1.chars[1], checks)
                    ELSE read_nondecimal_data(Advance(t1, 1), t1.chars[1], checks)
          [] x \in {Ch.squote, Ch.dquote} ->
               IF t.in_header THEN Ret(t, ItemErr("CommandHeaderError"))
               ELSE read_string_data(t, x, TRUE)
          [] x = Ch.lparen -> read_expression_data(t)
          [] OTHER ->
               IF is_ascii(x) THEN Ret(t1, ItemErr("SyntaxError"))
               ELSE Ret(t1, ItemErr("InvalidCharacter"))

\* An f32 is kept as sign, decimal mantissa and decimal exponent; a negative
\* mantissa marks the values that are not finite.
F32(neg, mant, exp) == [neg |-> neg, mant |-> mant, exp |-> exp]
NAN == F32(FALSE, -1, 0)
INFINITY == F32(FALSE, -2, 0)
NEG_INFINITY == F32(TRUE, -2, 0)
is_finite(v) == v.mant >= 0

\* Integers beyond 32 bits are kept as sign and decimal digits, most
\* significant first, <<>> being zero.
RECURSIVE Digits(_)
Digits(n) == IF n = 0 THEN <<>> ELSE Append(Digits(n \div 10), n % 10)
Zeros(k) == [i \in 1..k |-> 0]
RECURSIVE Pow10(_)
Pow10(k) == IF k = 0 THEN 1 ELSE 10 * Pow10(k - 1)
BigLE(a, b) ==
    \/ Len(a) < Len(b)
    \/ /\ Len(a) = Len(b)
       /\ \/ a = b
          \/ \E i \in 1..Len(a) : Take(a, i - 1) = Take(b, i - 1) /\ a[i] < b[i]
BigInt(neg, digits) == [neg |-> neg /\ digits # <<>>, digits |-> digits]

\* f32::round: the nearest integer, halves away from zero.
round(v) ==
    IF v.exp >= 0
    THEN BigInt(v.neg, Digits(v.mant) \o (IF v.mant = 0 THEN <<>> ELSE Zeros(v.exp)))
    ELSE BigInt(v.neg, Digits((2 * v.mant + Pow10(-v.exp)) \div (2 * Pow10(-v.exp))))

\* i64::MAX and the magnitude of i64::MIN.
I64Max == <<9, 2, 2, 3, 3, 7, 2, 0, 3, 6, 8, 5, 4, 7, 7, 5, 8, 0, 7>>
I64MinMag == <<9, 2, 2, 3, 3, 7, 2, 0, 3, 6, 8, 5, 4, 7, 7, 5, 8, 0, 8>>
\* `x as i64` of a float that is an integer: the cast saturates.
as_i64(n) ==
    IF n.neg THEN (IF BigLE(n.digits, I64MinMag) THEN n ELSE BigInt(TRUE, I64MinMag))
    ELSE (IF BigLE(n.digits, I64Max) THEN n ELSE BigInt(FALSE, I64Max))

\* The integer types of impl_tryfrom_integer!; isize and usize have the
\* width of the target's pointers.
IntTypes == {"i32", "u32", "i16", "u16", "i8", "u8", "usize", "isize"}
WidthOf(ty, pointer_width) ==
    CASE ty \in {"i8", "u8"} -> 8
      [] ty \in {"i16", "u16"} -> 16
      [] ty \in {"i32", "u32"} -> 32
      [] OTHER -> pointer_width
IsSigned(ty) == ty \in {"i8", "i16", "i32", "isize"}
\* The largest value of an integer type and the magnitude of its least.
TypeMax(signed, width) ==
    CASE width = 8 -> IF signed THEN <<1, 2, 7>> ELSE <<2, 5, 5>>
      [] width = 16 -> IF signed THEN <<3, 2, 7, 6, 7>> ELSE <<6, 5, 5, 3, 5>>
      [] width = 32 -> IF signed THEN <<2, 1, 4, 7, 4, 8, 3, 6, 4, 7>>
                       ELSE <<4, 2, 9, 4, 9, 6, 7, 2, 9, 5>>
      [] width = 64 -> IF signed THEN I64Max
                       ELSE <<1, 8, 4, 4, 6, 7, 4, 4, 0, 7, 3, 7, 0, 9, 5, 5, 1, 6, 1, 5>>
TypeMinMag(signed, width) ==
    IF ~signed THEN <<>>
    ELSE CASE width = 8 -> <<1, 2, 8>>
           [] width = 16 -> <<3, 2, 7, 6, 8>>
           [] width = 32 -> <<2, 1, 4, 7, 4, 8, 3, 6, 4, 8>>
           [] width = 64 -> I64MinMag
\* <$from>::try_from(i64) succeeds.
FitsI64(n, signed, width) ==
    IF n.neg THEN BigLE(n.digits, TypeMinMag(signed, width))
    ELSE BigLE(n.digits, TypeMax(signed, width))
\* <$from>::try_from(u32) succeeds, the u32 being kept as its halves.
FitsU32(u, signed, width) ==
    CASE width = 8 -> u.hi = 0 /\ u.lo <= (IF signed THEN 127 ELSE 255)
      [] width = 16 -> u.hi = 0 /\ (signed => u.lo <= 32767)
      [] width = 32 -> signed => u.hi <= 32767
      [] width = 64 -> TRUE

\* impl TryFrom<Token> for the integer types (impl_tryfrom_integer!).
try_from_integer(ty, pointer_width, value) ==
    LET signed == IsSigned(ty)
        width == WidthOf(ty, pointer_width)
    IN  CASE value.type = "DecimalNumericProgramData" ->
               IF is_finite(value.val)
               THEN LET n == as_i64(round(value.val))
                    IN  IF FitsI64(n, signed, width)
                        THEN ItemOk(Token("Integer", n))
                        ELSE ItemErr("DataOutOfRange")
               ELSE ItemErr("DataOutOfRange")
          [] value.type = "NonDecimalNumericProgramData" ->
               IF FitsU32(value.val, signed, width)
               THEN ItemOk(Token("Integer", value.val))
               ELSE ItemErr("DataOutOfRange")
          [] value.type \in {"SuffixProgramData", "CharacterProgramData",
                             "StringProgramData", "ArbitraryBlockData"} ->
               ItemErr("DataTypeError")
          [] OTHER -> ItemErr("SyntaxError")


\* impl TryFrom<Token> for f32
try_from_f32(value) ==
    CASE value.type = "DecimalNumericProgramData" -> ItemOk(Token("Float", value.val))
      [] value.type = "CharacterProgramData" ->
           IF mnemonic_compare(<<73, 78, 70, 105, 110, 105, 116, 121>>, value.val)
           THEN ItemOk(Token("Float", INFINITY))
           ELSE IF mnemonic_compare(<<78, 73, 78, 70, 105, 110, 105, 116, 121>>, value.val)
           THEN ItemOk(Token("Float", NEG_INFINITY))
           ELSE IF mnemonic_compare(<<78, 65, 78>>, value.val)
           THEN ItemOk(Token("Float", NAN))
           ELSE ItemErr("DataTypeError")
      [] value.type \in {"SuffixProgramData", "NonDecimalNumericProgramData",
                         "StringProgramData", "ArbitraryBlockData"} ->
           ItemErr("DataTypeError")
      [] OTHER -> ItemErr("SyntaxError")

\* <R>::try_from(value) for the types R of the model: f32 and i16.
try_from(R, value) ==
    IF R = "f32" THEN try_from_f32(value) ELSE try_from_integer(R, 64, value)

\* enum NumericValues
NumericKinds == {"Maximum", "Minimum", "Default", "Up", "Down"}

\* Token::numeric: num is the resolver, a function from NumericKinds to
\* results.
numeric(value, R, num) ==
    IF value.type = "CharacterProgramData"
    THEN LET x == value.val
         IN  CASE mnemonic_compare(<<77, 65, 88, 105, 109, 117, 109>>, x) -> num["Maximum"]
               [] mnemonic_compare(<<77, 73, 78, 105, 109, 117, 109>>, x) -> num["Minimum"]
               [] mnemonic_compare(<<68, 69, 70, 97, 117, 108, 116>>, x) -> num["Default"]
               [] mnemonic_compare(<<85, 80>>, x) -> num["Up"]
               [] mnemonic_compare(<<68, 79, 87, 78>>, x) -> num["Down"]
               [] OTHER -> try_from(R, value)
    ELSE try_from(R, value)

\* The order of the values of R (PartialOrd): a value in tenths, for the
\* values the model compares; NaN compares with nothing.
RECURSIVE BigValue(_)
BigValue(d) ==
    IF d = <<>> THEN 0 ELSE 10 * BigValue(Take(d, Len(d) - 1)) + d[Len(d)]
Signed(neg, n) == IF neg THEN -n ELSE n
Tenths(v) ==
    CASE "hi" \in DOMAIN v -> 10 * (65536 * v.hi + v.lo)
      [] "digits" \in DOMAIN v -> Signed(v.neg, 10 * BigValue(v.digits))
      [] v.mant = -2 -> Signed(v.neg, 1000000000)
      [] OTHER -> Signed(v.neg, v.mant * Pow10(v.exp + 1))
is_nan(v) == "mant" \in DOMAIN v /\ v.mant = -1
partial_gt(a, b) == ~is_nan(a) /\ ~is_nan(b) /\ Tenths(a) > Tenths(b)
partial_lt(a, b) == ~is_nan(a) /\ ~is_nan(b) /\ Tenths(a) < Tenths(b)

\* Token::numeric_range
numeric_range(value, R, min, max, num) ==
    LET r == numeric(value, R, num)
    IN  IF r.kind # "Ok" THEN r
        ELSE IF partial_gt(r.tok.val, max) \/ partial_lt(r.tok.val, min)
             THEN ItemErr("DataOutOfRange")
             ELSE r


\* Bits of 16-bit values: x & y, x | y and x & !y.
RECURSIVE BitAnd(_, _)
BitAnd(x, y) ==
    IF x = 0 \/ y = 0 THEN 0
    ELSE 2 * BitAnd(x \div 2, y \div 2) + (IF x % 2 = 1 /\ y % 2 = 1 THEN 1 ELSE 0)
RECURSIVE BitOr(_, _)
BitOr(x, y) ==
    IF x = 0 THEN y ELSE IF y = 0 THEN x
    ELSE 2 * BitOr(x \div 2, y \div 2) + (IF x % 2 = 1 \/ y % 2 = 1 THEN 1 ELSE 0)
BitAndNot(x, y) == x - BitAnd(x, y)

\* struct EventRegister and its default value.
EventRegister(condition, event, enable, ptr_filter, ntr_filter) ==
    [condition |-> condition, event |-> event, enable |-> enable,
     ptr_filter |-> ptr_filter, ntr_filter |-> ntr_filter]
EventRegister_default == EventRegister(0, 0, 0, 0, 0)

\* TestDevice::new
TestDevice_new ==
    [esr |-> 0, ese |-> 0, sre |-> 0,
     operation |-> EventRegister_default,
     questionable |-> EventRegister_default,
     errors |-> <<>>]

\* impl ScpiDevice for TestDevice
sre(d) == d.sre
set_sre(d, v) == [d EXCEPT !.sre = v]
esr(d) == d.esr
set_esr(d, v) == [d EXCEPT !.esr = v]
ese(d) == d.ese
set_ese(d, v) == [d EXCEPT !.ese = v]
\* impl ErrorQueue for TestDevice
push_back_error(d, err) == [d EXCEPT !.errors = Append(@, err)]
clear_errors(d) == [d EXCEPT !.errors = <<>>]

\* What a handler leaves: the device and its result, Ok(()) being
\* ItemOk(NoToken) and a response ItemOk(Token("Response", value)).
Done(d, item) == [dev |-> d, item |-> item]
Response(v) == ItemOk(Token("Response", v))
\* The value of a converted integer that is not negative.
NatOf(v) == IF "hi" \in DOMAIN v THEN 65536 * v.hi + v.lo ELSE BigValue(v.digits)

\* Arguments::data for an integer type: the next data object, converted;
\* NoToken stands for a unit without arguments.
args_data(ty, arg) ==
    IF arg = NoToken THEN ItemErr("MissingParameter")
    ELSE try_from_integer(ty, 64, arg)

\* The default exec_rst and exec_cls of the device traits.
exec_rst(d) == Done(d, ItemOk(NoToken))
exec_cls(d) ==
    Done(clear_errors([d EXCEPT !.esr = 0, !.operation.event = 0,
                                !.questionable.event = 0]),
         ItemOk(NoToken))

\* ClsCommand::event
ClsCommand_event(d) == exec_cls(d)

\* EseCommand::event and EseCommand::query
EseCommand_event(d, arg) ==
    LET r == args_data("u8", arg)
    IN  IF r.kind = "Ok" THEN Done(set_ese(d, NatOf(r.tok.val)), ItemOk(NoToken))
        ELSE Done(d, r)
EseCommand_query(d) == Done(d, Response(ese(d)))

\* An *ESR? that reads without clearing.
EsrCommand_query_keeping(d) == Done(d, Response(esr(d)))
\* EsrCommand::query
EsrCommand_query(d) == Done(set_esr(d, 0), Response(esr(d)))

\* A *RST that clears the status as *CLS does.
RstCommand_event_clearing(d) == exec_cls(d)
\* RstCommand::event
RstCommand_event(d) == exec_rst(d)

\* SreCommand::event and SreCommand::query
SreCommand_event(d, arg) ==
    LET r == args_data("u8", arg)
    IN  IF r.kind = "Ok" THEN Done(set_sre(d, NatOf(r.tok.val)), ItemOk(NoToken))
        ELSE Done(d, r)
SreCommand_query(d) == Done(d, Response(sre(d)))

\* An ENABle that stores the default value when its argument is refused.
EnabCommand_event_defaulting(d, reg, arg) ==
    LET r == args_data("u16", arg)
    IN  IF r.kind = "Ok"
        THEN Done([d EXCEPT ![reg].enable = NatOf(r.tok.val)], ItemOk(NoToken))
        ELSE Done([d EXCEPT ![reg].enable = 0], r)
\* EnabCommand::event, NtrCommand::event and PtrCommand::event for the
\* register reg, "operation" or "questionable".
EnabCommand_event(d, reg, arg) ==
    LET r == args_data("u16", arg)
    IN  IF r.kind = "Ok"
        THEN Done([d EXCEPT ![reg].enable = NatOf(r.tok.val)], ItemOk(NoToken))
        ELSE Done(d, r)
\* An NTRansition that stores its value in both filters of the register.
NtrCommand_event_both(d, reg, arg) ==
    LET r == args_data("u16", arg)
    IN  IF r.kind = "Ok"
        THEN Done([d EXCEPT ![reg].ntr_filter = NatOf(r.tok.val),
                            ![reg].ptr_filter = NatOf(r.tok.val)], ItemOk(NoToken))
        ELSE Done(d, r)
NtrCommand_event(d, reg, arg) ==
    LET r == args_data("u16", arg)
    IN  IF r.kind = "Ok"
        THEN Done([d EXCEPT ![reg].ntr_filter = NatOf(r.tok.val)], ItemOk(NoToken))
        ELSE Done(d, r)
PtrCommand_event(d, reg, arg) ==
    LET r == args_data("u16", arg)
    IN  IF r.kind = "Ok"
        THEN Done([d EXCEPT ![reg].ptr_filter = NatOf(r.tok.val)], ItemOk(NoToken))
        ELSE Done(d, r)

\* IEEE488Device::read_stb: the summary bits of the status byte. OPERation
\* is bit 7, ESR bit 5, QUEStionable bit 3 and a non-empty error queue bit 2;
\* bit 4, message available, is not the device's to give.
read_stb(d) ==
    (IF BitAnd(d.operation.event, d.operation.enable) # 0 THEN 128 ELSE 0)
    + (IF BitAnd(d.esr, d.ese) # 0 THEN 32 ELSE 0)
    + (IF BitAnd(d.questionable.event, d.questionable.enable) # 0 THEN 8 ELSE 0)
    + (IF d.errors # <<>> THEN 4 ELSE 0)
\* A *STB? that leaves the flag of the context out.
StbCommand_query_without_mav(d, mav) == Done(d, Response(read_stb(d)))
\* StbCommand::query with context.mav = mav
StbCommand_query(d, mav) ==
    Done(d, Response(IF mav THEN BitOr(read_stb(d), 16) ELSE read_stb(d)))

\* EnabCommand::query, NtrCommand::query and PtrCommand::query
NtrCommand_query(d, reg) == Done(d, Response(BitAnd(d[reg].ntr_filter, 32767)))
PtrCommand_query(d, reg) == Done(d, Response(BitAnd(d[reg].ptr_filter, 32767)))
\* An ENABle? that responds all 16 bits.
EnabCommand_query_unmasked(d, reg) == Done(d, Response(d[reg].enable))
EnabCommand_query(d, reg) == Done(d, Response(BitAnd(d[reg].enable, 32767)))

\* An [:EVENt]? that leaves the event field as it is.
EventCommand_query_keeping(d, reg) == Done(d, Response(BitAnd(d[reg].event, 32767)))
\* EventCommand::query: core::mem::replace(event, 0) & 0x7FFF
EventCommand_query(d, reg) ==
    Done([d EXCEPT ![reg].event = 0], Response(BitAnd(d[reg].event, 32767)))
\* CondCommand::query
CondCommand_query(d, reg) == Done(d, Response(BitAnd(d[reg].condition, 32767)))

\* nquery!() and qonly!(): the form the handler does not provide.
nquery(d) == Done(d, ItemErr("UndefinedHeader"))
qonly(d) == Done(d, ItemErr("UndefinedHeader"))
\* The query form of the event-only commands.
ClsCommand_query(d) == nquery(d)
RstCommand_query(d) == nquery(d)
WaiCommand_query(d) == nquery(d)
StatPresCommand_query(d) == nquery(d)
AbortCommand_query(d) == nquery(d)
\* An *ESR without `?` that acts as the query does.
EsrCommand_event_clearing(d) == Done(set_esr(d, 0), ItemOk(NoToken))
\* The command form of the query-only commands.
EsrCommand_event(d) == qonly(d)
IdnCommand_event(d) == qonly(d)
StbCommand_event(d) == qonly(d)
TstCommand_event(d) == qonly(d)
EventCommand_event(d, reg) == qonly(d)
CondCommand_event(d, reg) == qonly(d)

\* The device gives the condition of a register a new value: the transitions
\* selected by the filters are written into the event field.
set_condition(d, reg, v) ==
    LET old == d[reg].condition
        rising == BitAnd(d[reg].ptr_filter, BitAndNot(v, old))
        falling == BitAnd(d[reg].ntr_filter, BitAndNot(old, v))
    IN  [d EXCEPT ![reg].condition = v,
                  ![reg].event = BitOr(@, BitOr(rising, falling))]

\* The bit of ESR of the class of an error: command error bit 5, execution
\* error bit 4, device-dependent error bit 3, query error bit 2.
ErrorClassBit(code) ==
    CASE code \in {"DataOutOfRange"} -> 16
      [] OTHER -> 32
\* The dispatcher after a unit: an error is put into the error queue and its
\* class bit set in ESR.
after_unit(r) ==
    IF r.item.kind = "Err"
    THEN push_back_error(set_esr(r.dev, BitOr(esr(r.dev), ErrorClassBit(r.item.err))),
                         r.item.err)
    ELSE r.dev


\* Token::is_data_object, the data arm of next_data.
DataObjectTypes ==
    {"CharacterProgramData", "DecimalNumericProgramData", "SuffixProgramData",
     "NonDecimalNumericProgramData", "StringProgramData", "ArbitraryBlockData",
     "ExpressionProgramData"}

\* A next_separator that consumes whatever token is next.
next_separator_consuming(t, checks) ==
    LET r == next(t, checks)
    IN  CASE r.item.kind = "None" -> Ret(t, ItemOk(NoToken))
          [] r.item.kind \in {"Err", "Panic"} -> Ret(t, r.item)
          [] OTHER ->
               CASE r.item.tok.type \in
                        {"ProgramDataSeparator", "ProgramMessageUnitSeparator",
                         "ProgramMessageTerminator"} ->
                      Ret(r.t, ItemOk(NoToken))
                 [] r.item.tok.type = "SuffixProgramData" ->
                      Ret(r.t, ItemErr("SuffixNotAllowed"))
                 [] OTHER -> Ret(r.t, ItemErr("InvalidSeparator"))

\* Tokenizer::next_separator: Ok(()) is ItemOk(NoToken).  The token r is read
\* on a clone; self.next() repeats that read on self.
next_separator_match(t, r) ==
    CASE r.item.kind = "None" -> Ret(t, ItemOk(NoToken))
      [] r.item.kind \in {"Err", "Panic"} -> Ret(t, r.item)
      [] OTHER ->
           CASE r.item.tok.type = "ProgramDataSeparator" -> Ret(r.t, ItemOk(NoToken))
             [] r.item.tok.type \in
                    {"ProgramMessageUnitSeparator", "ProgramMessageTerminator"} ->
                  Ret(t, ItemOk(NoToken))
             [] r.item.tok.type = "SuffixProgramData" ->
                  Ret(t, ItemErr("SuffixNotAllowed"))
             [] OTHER -> Ret(t, ItemErr("InvalidSeparator"))
next_separator(t, checks) == next_separator_match(t, next(t, checks))

\* What next_data answers when no data object is there.
NoData(optional) == IF optional THEN ItemNone ELSE ItemErr("MissingParameter")

RECURSIVE next_data(_, _, _)
\* The same with the call after a data separator passing `optional` on.
RECURSIVE next_data_lenient(_, _, _)
next_data_lenient(t, optional, checks) ==
    LET r == next(t, checks)
    IN  CASE r.item.kind = "None" -> Ret(t, NoData(optional))
          [] r.item.kind \in {"Err", "Panic"} -> Ret(t, r.item)
          [] OTHER ->
               CASE r.item.tok.type \in DataObjectTypes -> Ret(r.t, r.item)
                 [] r.item.tok.type = "ProgramDataSeparator" ->
                      next_data_lenient(r.t, optional, checks)
                 [] OTHER -> Ret(t, NoData(optional))

\* Tokenizer::next_data: Ok(Some(token)) is ItemOk(token), Ok(None) is
\* ItemNone.  The token r is read on a clone.
next_data_match(t, optional, checks, r) ==
    CASE r.item.kind = "None" -> Ret(t, NoData(optional))
      [] r.item.kind \in {"Err", "Panic"} -> Ret(t, r.item)
      [] OTHER ->
           CASE r.item.tok.type \in DataObjectTypes -> Ret(r.t, r.item)
             [] r.item.tok.type = "ProgramDataSeparator" ->
                  next_data(r.t, FALSE, checks)
             [] OTHER -> Ret(t, NoData(optional))
next_data(t, optional, checks) == next_data_match(t, optional, checks, next(t, checks))

-----------------------------------------------------------------------------
(* The matcher's inputs.  A canonical mnemonic is an uppercase short form, *)
(* lowercase letters completing the long form and an optional index, as    *)
(* the names of the tree nodes are written (b"SENSe", b"TRIGger2").        *)

UpperParts == {<<65>>, <<65, 66>>}
LowerParts == {<<>>, <<97>>, <<97, 98>>}
IndexParts == {<<>>, <<49>>, <<50>>, <<49, 50>>}
Canonicals ==
    {c \in {u \o l \o d : u \in UpperParts, l \in LowerParts, d \in IndexParts} :
        Len(c) <= MaxCanonLen}

\* Received bytes: letters of both cases and digits.
MatchAlphabet == {65, 66, 97, 98, 49, 50}

Prefixes(x) == {Take(x, n) : n \in 0..Len(x)}
CaseVariants(x) ==
    {y \in [1..Len(x) -> MatchAlphabet] :
        \A i \in 1..Len(x) : y[i] \in {x[i], x[i] + 32, x[i] - 32}}

\* The tokenizer Tokenizer::new builds on a buffer.
Tokenizer_new(b) ==
    [chars |-> b, in_header |-> TRUE, in_common |-> FALSE, in_numeric |-> FALSE]

\* A call of operation o with argument arg on tokenizer from, which left the
\* tokenizer to and returned result.
Call(o, arg, from, to, result) ==
    [op |-> o, arg |-> arg, from |-> from, to |-> to, result |-> result]
NoCall == Call("-", FALSE, Tokenizer_new(<<>>), Tokenizer_new(<<>>), ItemNone)

InitMatch ==
    /\ canonical \in Canonicals
    /\ received \in Strs(MatchAlphabet, MaxRecvLen)
    /\ received2 = <<>>
    /\ op = "init"
    /\ cmp = FALSE /\ cmp2 = FALSE /\ eqm = FALSE /\ eqm2 = FALSE
    /\ split = None
    /\ buf = <<>> /\ tk = Tokenizer_new(<<>>) /\ out = <<>> /\ before = <<>>
    /\ ended = FALSE
    /\ overflow_checks = FALSE
    /\ call = NoCall
    /\ operand = NoToken
    /\ dev = TestDevice_new /\ nunits = 0 /\ path = <<>>

\* mnemonic_compare(canonical, received)
Compare ==
    /\ op = "init"
    /\ op' = "compare"
    /\ cmp' = mnemonic_compare(canonical, received)
    /\ UNCHANGED <<canonical, received, received2, cmp2, eqm, eqm2, split>>
    /\ UNCHANGED lexVars
    /\ UNCHANGED devVars

\* Token::ProgramMnemonic(received).eq_mnemonic(canonical)
EqMnemonic ==
    /\ op = "init"
    /\ op' = "eq"
    /\ eqm' = eq_mnemonic(Token("ProgramMnemonic", received), canonical)
    /\ UNCHANGED <<canonical, received, received2, cmp, cmp2, eqm2, split>>
    /\ UNCHANGED lexVars
    /\ UNCHANGED devVars

\* mnemonic_split_index(received)
SplitIndex ==
    /\ op = "init"
    /\ op' = "split"
    /\ split' = mnemonic_split_index(received)
    /\ UNCHANGED <<canonical, received, received2, cmp, cmp2, eqm, eqm2>>
    /\ UNCHANGED lexVars
    /\ UNCHANGED devVars

\* Two received strings, one a prefix or a case variant of the other, are
\* matched against the same canonical mnemonic.
ComparePair ==
    /\ op = "init"
    /\ \E x \in Prefixes(received) \cup CaseVariants(received) :
          /\ received2' = x
          /\ cmp2' = mnemonic_compare(canonical, x)
          /\ eqm2' = eq_mnemonic(Token("ProgramMnemonic", x), canonical)
    /\ cmp' = mnemonic_compare(canonical, received)
    /\ eqm' = eq_mnemonic(Token("ProgramMnemonic", received), canonical)
    /\ op' = "pair"
    /\ UNCHANGED <<canonical, received, split>>
    /\ UNCHANGED lexVars
    /\ UNCHANGED devVars

NextMatch == Compare \/ EqMnemonic \/ SplitIndex \/ ComparePair

SpecMatch == InitMatch /\ [][NextMatch]_vars

-----------------------------------------------------------------------------
(* What the claims about the matcher speak of.                             *)

\* The number of leading uppercase bytes of c: the length of its short form.
UpperPrefixLen(c) ==
    Min({i \in 1..Len(c) : ~(c[i] \in 65..90)} \cup {Len(c) + 1}) - 1
ShortForm(c) == Take(c, UpperPrefixLen(c))
\* An uppercase short form followed by lowercase letters only.
IsCanonicalStem(c) ==
    /\ UpperPrefixLen(c) >= 1
    /\ \A i \in 1..Len(c) : i > UpperPrefixLen(c) => c[i] \in 97..122
SameLetter(a, b) ==
    \/ a = b
    \/ a \in 65..90 /\ b = a + 32
    \/ b \in 65..90 /\ a = b + 32
SameIgnoringCase(x, y) ==
    Len(x) = Len(y) /\ \A i \in 1..Len(x) : SameLetter(x[i], y[i])
IsPrefixOf(x, y) == Len(x) <= Len(y) /\ x = Take(y, Len(x))

\* C1: for a canonical mnemonic C (uppercase short form, then lowercase
\* letters) mnemonic_compare(C, s) is true exactly when s is, ignoring ASCII
\* case, the short form of C or the whole of C; a shorter, a longer and a
\* partial long form are rejected.
C1_CompareShortOrLong ==
    (op = "compare" /\ IsCanonicalStem(canonical)) =>
        /\ cmp <=> \/ SameIgnoringCase(received, ShortForm(canonical))
                   \/ SameIgnoringCase(received, canonical)
        /\ Len(received) \notin {UpperPrefixLen(canonical), Len(canonical)} => ~cmp

\* A partial long form (as `TRIGge` for `TRIGger`) has been compared and rejected.
C1_Witness ==
    /\ op = "compare" /\ IsCanonicalStem(canonical)
    /\ UpperPrefixLen(canonical) < Len(received)
    /\ Len(received) < Len(canonical)
    /\ SameIgnoringCase(received, Take(canonical, Len(received)))
    /\ ~cmp

\* C2 as stated: if mnemonic_compare(C, s) holds and s' is a prefix of s at
\* least as long as the uppercase prefix of C, mnemonic_compare(C, s') holds.
C2_MonotoneAnyPrefix ==
    (/\ op = "pair" /\ IsCanonicalStem(canonical)
     /\ cmp
     /\ IsPrefixOf(received2, received)
     /\ Len(received2) >= UpperPrefixLen(canonical)) => cmp2

\* C2, amended: if mnemonic_compare(C, s) holds and s' is a prefix of s whose
\* length is that of the uppercase prefix of C or that of C itself, then
\* mnemonic_compare(C, s') holds.
C2_MonotoneShortOrLong ==
    (/\ op = "pair" /\ IsCanonicalStem(canonical)
     /\ cmp
     /\ IsPrefixOf(received2, received)
     /\ Len(received2) \in {UpperPrefixLen(canonical), Len(canonical)}) => cmp2

\* The long form matched, and so did its prefix of the short form's length.
C2_Witness ==
    /\ op = "pair" /\ IsCanonicalStem(canonical)
    /\ cmp /\ cmp2
    /\ Len(received) = Len(canonical)
    /\ IsPrefixOf(received2, received)
    /\ Len(received2) = UpperPrefixLen(canonical)
    /\ Len(received2) < Len(received)

\* C3: two received strings that differ only in the ASCII case of their
\* letters get the same answer from mnemonic_compare and from eq_mnemonic,
\* whatever the canonical mnemonic.
C3_CaseInsensitive ==
    (op = "pair" /\ SameIgnoringCase(received, received2)) =>
        (cmp = cmp2 /\ eqm = eqm2)

\* Two strings of different case both matched.
C3_Witness ==
    /\ op = "pair"
    /\ SameIgnoringCase(received, received2) /\ received # received2
    /\ cmp /\ cmp2 /\ eqm /\ eqm2

\* The trailing digits of m, when a non-digit precedes them.
DigitTail(m) ==
    Len(m) - Max({i \in 1..Len(m) : ~(m[i] \in 48..57)} \cup {0})
HasIndex(m) == DigitTail(m) > 0 /\ DigitTail(m) < Len(m)
StemOf(m) == IF HasIndex(m) THEN Take(m, Len(m) - DigitTail(m)) ELSE m
\* A missing index counts as `1`.
IndexOf(m) == IF HasIndex(m) THEN Drop(m, Len(m) - DigitTail(m)) ELSE <<49>>

\* C4: eq_mnemonic(received, canonical) is true exactly when the stems match
\* under the short/long-form rule and the indices, as digit strings, agree,
\* an index missing on either side counting as `1`.
C4_EqMnemonic ==
    (op = "eq" /\ IsCanonicalStem(StemOf(canonical))) =>
        (eqm <=>
            /\ \/ SameIgnoringCase(StemOf(received), ShortForm(StemOf(canonical)))
               \/ SameIgnoringCase(StemOf(received), StemOf(canonical))
            /\ IndexOf(received) = IndexOf(canonical))

\* An un-indexed received mnemonic matched a canonical mnemonic of index 1.
C4_Witness ==
    /\ op = "eq" /\ eqm
    /\ HasIndex(canonical) /\ IndexOf(canonical) = <<49>>
    /\ ~HasIndex(received)

\* C5: mnemonic_split_index(m) is Some((stem, digits)) exactly when m ends in
\* digits preceded by a non-digit; then stem ++ digits = m, digits is the
\* whole trailing run of digits and stem ends in a non-digit.  It is None for
\* the empty string, a string ending in a non-digit and a string of digits.
C5_SplitIndex ==
    op = "split" =>
        /\ split.some <=>
              /\ received # <<>>
              /\ received[Len(received)] \in 48..57
              /\ \E i \in 1..Len(received) : received[i] \notin 48..57
        /\ split.some =>
              /\ split.stem \o split.index = received
              /\ split.index # <<>>
              /\ \A i \in 1..Len(split.index) : split.index[i] \in 48..57
              /\ split.stem # <<>>
              /\ split.stem[Len(split.stem)] \notin 48..57

\* A mnemonic with digits inside its stem has been split at its last digits.
C5_Witness ==
    /\ op = "split" /\ split.some
    /\ Len(split.index) = 1
    /\ \E i \in 1..Len(split.stem) : split.stem[i] \in 48..57

-----------------------------------------------------------------------------
(* The lexer at work: a Tokenizer is built on a buffer and next() is       *)
(* called until it returns None, also after an Err, as a dispatcher does   *)
(* to reach the next unit.                                                 *)

InitLex(Bufs) ==
    /\ buf \in Bufs
    /\ tk = Tokenizer_new(buf)
    /\ out = <<>>
    /\ before = <<>>
    /\ ended = FALSE
    /\ overflow_checks \in BOOLEAN
    /\ call = NoCall
    /\ operand = NoToken
    /\ dev = TestDevice_new /\ nunits = 0 /\ path = <<>>
    /\ canonical = <<>> /\ received = <<>> /\ received2 = <<>>
    /\ op = "lex"
    /\ cmp = FALSE /\ cmp2 = FALSE /\ eqm = FALSE /\ eqm2 = FALSE
    /\ split = None

Last(seq) == seq[Len(seq)]
Panicked == out # <<>> /\ Last(out).kind = "Panic"

\* One call of next() on the tokenizer.
LexNext ==
    /\ ~ended /\ ~Panicked
    /\ Len(out) < MaxCalls
    /\ LET r == next(tk, overflow_checks)
       IN  /\ tk' = r.t
           /\ IF r.item.kind = "None"
              THEN ended' = TRUE /\ out' = out /\ before' = before
              ELSE /\ ended' = FALSE
                   /\ out' = Append(out, r.item)
                   /\ before' = Append(before, tk)
    /\ UNCHANGED <<buf, overflow_checks, call, operand>>
    /\ UNCHANGED matchVars
    /\ UNCHANGED devVars

NextLex == LexNext

\* A call of next_data(optional) on the tokenizer.
NextData ==
    /\ ~Panicked /\ call.result.kind # "Panic"
    /\ \E optional \in BOOLEAN :
          \E r \in {next_data(tk, optional, overflow_checks)} :
              /\ tk' = r.t
              /\ call' = Call("next_data", optional, tk, r.t, r.item)
    /\ UNCHANGED <<buf, out, before, ended, overflow_checks, operand>>
    /\ UNCHANGED matchVars
    /\ UNCHANGED devVars

\* A call of next_separator() on the tokenizer.
NextSeparator ==
    /\ ~Panicked /\ call.result.kind # "Panic"
    /\ \E r \in {next_separator(tk, overflow_checks)} :
          /\ tk' = r.t
          /\ call' = Call("next_separator", FALSE, tk, r.t, r.item)
    /\ UNCHANGED <<buf, out, before, ended, overflow_checks, operand>>
    /\ UNCHANGED matchVars
    /\ UNCHANGED devVars

\* The suffix functions handed to next_decimal: one that scales the value by
\* 1000 whatever the suffix, one that rejects every suffix.
SuffixFns == {"kilo", "reject"}
suffix(kind, val, s) ==
    IF kind = "kilo"
    THEN ItemOk(Token("DecimalNumericProgramData", [val EXCEPT !.exp = @ + 3]))
    ELSE ItemErr("SuffixNotAllowed")

\* A next_decimal that goes on from the clone whatever it read.
next_decimal_consuming(val, peek, kind) ==
    CASE val.item.kind # "Ok" -> val
      [] val.item.tok.type = "DecimalNumericProgramData" ->
           CASE peek.item.kind = "None" -> val
             [] peek.item.kind # "Ok" -> Ret(peek.t, peek.item)
             [] peek.item.tok.type = "SuffixProgramData" ->
                  Ret(peek.t, suffix(kind, val.item.tok.val, peek.item.tok.val))
             [] OTHER -> Ret(peek.t, val.item)
      [] val.item.tok.type = "CharacterProgramData" -> val
      [] OTHER -> Ret(val.t, ItemErr("MissingParameter"))
\* Tokenizer::next_decimal after `self.next_data(optional)` answered val:
\* peek is what `clone.next()` answers on a clone of the tokenizer val.t.
next_decimal_match(val, peek, kind) ==
    CASE val.item.kind # "Ok" -> val
      [] val.item.tok.type = "DecimalNumericProgramData" ->
           CASE peek.item.kind = "None" -> val
             [] peek.item.kind # "Ok" -> Ret(val.t, peek.item)
             [] peek.item.tok.type = "SuffixProgramData" ->
                  Ret(peek.t, suffix(kind, val.item.tok.val, peek.item.tok.val))
             [] OTHER -> val
      [] val.item.tok.type = "CharacterProgramData" -> val
      [] OTHER -> Ret(val.t, ItemErr("MissingParameter"))
next_decimal_peek(val, kind, checks) ==
    next_decimal_match(val, next(val.t, checks), kind)
\* Tokenizer::next_decimal
next_decimal(t, optional, kind, checks) ==
    next_decimal_peek(next_data(t, optional, checks), kind, checks)

\* A call of next_decimal(optional, suffix) on the tokenizer.
NextDecimal ==
    /\ ~Panicked /\ call.result.kind # "Panic"
    /\ \E optional \in BOOLEAN, kind \in SuffixFns :
          \E r \in {next_decimal(tk, optional, kind, overflow_checks)} :
              /\ tk' = r.t
              /\ call' = Call("next_decimal", <<optional, kind>>, tk, r.t, r.item)
    /\ UNCHANGED <<buf, out, before, ended, overflow_checks, operand>>
    /\ UNCHANGED matchVars
    /\ UNCHANGED devVars

\* The arguments read by next() and next_decimal in any order: the header
\* `A `, then bytes among `1`, `a`, `,`, `;` and space.
DecBufs == {<<65, 32>> \o body : body \in Strs({49, 97, 44, 59, 32}, MaxDecLen)}
NextDec == LexNext \/ NextDecimal
InitDec == InitLex(DecBufs) /\ overflow_checks = FALSE
SpecDec == InitDec /\ [][NextDec]_vars

\* The arguments of a unit read by next(), next_data and next_separator in
\* any order: the header `A` and then any bytes among space, `,`, `;`,
\* newline, `a`, `1` and `*`.
ArgAlphabet == {32, 44, 59, 10, 97, 49, 42}
ArgBufs == {<<65>> \o body : body \in Strs(ArgAlphabet, MaxArgLen)}
NextArgs == LexNext \/ NextData \/ NextSeparator
SpecArgs == InitLex(ArgBufs) /\ [][NextArgs]_vars

\* The tokens conversions are applied to: decimal numbers around the limits
\* of the integer types, with a fraction, and beyond 64 bits; numbers that
\* are not finite; non-decimal numbers; every other kind of token.
ConvMants == {0, 1, 4, 5, 15, 127, 128, 255, 256, 1275, 32767, 32768, 65535, 65536}
ConvExps == {-1, 0, 1, 2, 19, 30}
ConvHalves == {0, 1, 127, 128, 255, 256, 32767, 32768, 65535}
DecimalTokens ==
    {Token("DecimalNumericProgramData", F32(neg, mant, exp)) :
        neg \in BOOLEAN, mant \in ConvMants, exp \in ConvExps}
    \cup {Token("DecimalNumericProgramData", v) : v \in {NAN, INFINITY, NEG_INFINITY}}
NonDecimalTokens ==
    {Token("NonDecimalNumericProgramData", U32(hi, lo)) :
        hi \in ConvHalves, lo \in ConvHalves}
BytesTokens ==
    {Token(type, val) :
        type \in {"CharacterProgramData", "SuffixProgramData", "StringProgramData",
                  "ArbitraryBlockData", "ExpressionProgramData", "ProgramMnemonic"},
        val \in {<<97>>, <<77, 65, 88>>, <<109, 105, 110>>, <<78, 65, 78>>,
                 <<85, 80>>, <<68, 79, 87, 78>>, <<100, 101, 102>>,
                 <<109, 97, 120, 105, 109, 117, 109>>, <<77, 65, 88, 105>>,
                 <<110, 105, 110, 102>>}}
    \cup {Token(type, <<>>) :
            type \in {"ProgramDataSeparator", "ProgramMessageUnitSeparator",
                      "ProgramMessageTerminator", "HeaderQuerySuffix"}}

InitConv ==
    /\ \/ operand \in DecimalTokens
       \/ operand \in NonDecimalTokens
       \/ operand \in BytesTokens
    /\ dev = TestDevice_new /\ nunits = 0 /\ path = <<>>
    /\ call = NoCall
    /\ buf = <<>> /\ tk = Tokenizer_new(<<>>) /\ out = <<>> /\ before = <<>>
    /\ ended = FALSE
    /\ overflow_checks = FALSE
    /\ canonical = <<>> /\ received = <<>> /\ received2 = <<>>
    /\ op = "conv"
    /\ cmp = FALSE /\ cmp2 = FALSE /\ eqm = FALSE /\ eqm2 = FALSE
    /\ split = None

\* <ty>::try_from(token) on a target with 32-bit or 64-bit pointers.
TryFromInteger ==
    /\ op = "conv" /\ call = NoCall
    /\ \E ty \in IntTypes, pointer_width \in {32, 64} :
          call' = Call("try_from", [ty |-> ty, pointer_width |-> pointer_width],
                       Tokenizer_new(<<>>), Tokenizer_new(<<>>),
                       try_from_integer(ty, pointer_width, operand))
    /\ UNCHANGED <<buf, tk, out, before, ended, overflow_checks, operand>>
    /\ UNCHANGED matchVars
    /\ UNCHANGED devVars

\* The values of R a resolver returns and the limits of a range: small
\* integers, and for f32 the value that is not a number.
Num(R, n) ==
    IF R = "f32" THEN F32(n < 0, IF n < 0 THEN -n ELSE n, 0)
    ELSE BigInt(n < 0, Digits(IF n < 0 THEN -n ELSE n))
OkNum(R, n) == ItemOk(Token(IF R = "f32" THEN "Float" ELSE "Integer", Num(R, n)))
Resolvers(R) ==
    { [k \in NumericKinds |->
          CASE k = "Maximum" -> OkNum(R, 10) [] k = "Minimum" -> OkNum(R, 0)
            [] k = "Default" -> OkNum(R, 1) [] k = "Up" -> OkNum(R, 11)
            [] k = "Down" -> OkNum(R, -1)],
      [k \in NumericKinds |->
          IF k \in {"Maximum", "Minimum"} THEN OkNum(R, 5)
          ELSE ItemErr("ParameterError")] }
    \cup (IF R = "f32"
          THEN {[k \in NumericKinds |-> ItemOk(Token("Float", NAN))]}
          ELSE {})
\* The operands whose values the model can compare.
IsRangeOperand(value) ==
    /\ value.type = "DecimalNumericProgramData" =>
          (~is_finite(value.val) \/ value.val.exp <= 2)
    /\ value.type = "NonDecimalNumericProgramData" => value.val.hi = 0

\* operand.numeric_range(min, max, num) with R one of f32 and i16.
NumericRange ==
    /\ op = "conv" /\ call = NoCall
    /\ IsRangeOperand(operand)
    /\ \E R \in {"f32", "i16"}, min \in {0, 1}, max \in {1, 10} :
          \E num \in Resolvers(R) :
             call' = Call("numeric_range",
                          [R |-> R, min |-> Num(R, min), max |-> Num(R, max), num |-> num],
                          Tokenizer_new(<<>>), Tokenizer_new(<<>>),
                          numeric_range(operand, R, Num(R, min), Num(R, max), num))
    /\ UNCHANGED <<buf, tk, out, before, ended, overflow_checks, operand>>
    /\ UNCHANGED matchVars
    /\ UNCHANGED devVars

NextConv == TryFromInteger \/ NumericRange
SpecConv == InitConv /\ [][NextConv]_vars

\* The arguments of the units executed on the device: decimal and
\* non-decimal numbers, character data, and no argument.
ArgKeys ==
    {<<"dec", n>> : n \in {0, 64, 100, 256}}
    \cup {<<"hex", 65>>, <<"char", 0>>, <<"none", 0>>}
FilterKeys ==
    {<<"dec", 5>>, <<"dec", 65535>>, <<"dec", 65536>>, <<"neg", 1>>,
     <<"char", 0>>, <<"none", 0>>}
ArgToken(key) ==
    CASE key[1] = "dec" -> Token("DecimalNumericProgramData", F32(FALSE, key[2], 0))
      [] key[1] = "neg" -> Token("DecimalNumericProgramData", F32(TRUE, key[2], 0))
      [] key[1] = "hex" -> Token("NonDecimalNumericProgramData", U32(0, key[2]))
      [] key[1] = "char" -> Token("CharacterProgramData", <<97>>)
      [] OTHER -> NoToken
RegisterNames == {"operation", "questionable"}

InitDev ==
    /\ dev = TestDevice_new /\ nunits = 0 /\ path = <<>>
    /\ call = NoCall
    /\ operand = NoToken
    /\ buf = <<>> /\ tk = Tokenizer_new(<<>>) /\ out = <<>> /\ before = <<>>
    /\ ended = FALSE
    /\ overflow_checks = FALSE
    /\ canonical = <<>> /\ received = <<>> /\ received2 = <<>>
    /\ op = "dev"
    /\ cmp = FALSE /\ cmp2 = FALSE /\ eqm = FALSE /\ eqm2 = FALSE
    /\ split = None

\* The unit named o with argument arg is executed: its handler runs, then
\* the dispatcher handles its error, if any.
Unit(o, arg, r) ==
    /\ op = "dev" /\ nunits < MaxUnits
    /\ nunits' = nunits + 1 /\ path' = path
    /\ dev' = after_unit(r)
    /\ call' = Call(o, arg, dev, after_unit(r), r.item)
    /\ UNCHANGED <<buf, tk, out, before, ended, overflow_checks, operand>>
    /\ UNCHANGED matchVars

Cls == Unit("*CLS", <<"none", 0>>, ClsCommand_event(dev))
Ese == \E key \in ArgKeys : Unit("*ESE", key, EseCommand_event(dev, ArgToken(key)))
EseQuery == Unit("*ESE?", <<"none", 0>>, EseCommand_query(dev))
EsrQuery == Unit("*ESR?", <<"none", 0>>, EsrCommand_query(dev))
Rst == Unit("*RST", <<"none", 0>>, RstCommand_event(dev))
Sre == \E key \in ArgKeys : Unit("*SRE", key, SreCommand_event(dev, ArgToken(key)))
SreQuery == Unit("*SRE?", <<"none", 0>>, SreCommand_query(dev))
StatEnab ==
    \E reg \in RegisterNames, key \in FilterKeys :
        Unit("STAT:ENAB", <<key[1], key[2], reg>>,
             EnabCommand_event(dev, reg, ArgToken(key)))
StatNtr ==
    \E reg \in RegisterNames, key \in FilterKeys :
        Unit("STAT:NTR", <<key[1], key[2], reg>>,
             NtrCommand_event(dev, reg, ArgToken(key)))
StatPtr ==
    \E reg \in RegisterNames, key \in FilterKeys :
        Unit("STAT:PTR", <<key[1], key[2], reg>>,
             PtrCommand_event(dev, reg, ArgToken(key)))
StbQuery ==
    \E mav \in BOOLEAN :
        Unit("*STB?", <<"none", 0, mav>>, StbCommand_query(dev, mav))
StatEnabQuery ==
    \E reg \in RegisterNames :
        Unit("STAT:ENAB?", <<"none", 0, reg>>, EnabCommand_query(dev, reg))
StatNtrQuery ==
    \E reg \in RegisterNames :
        Unit("STAT:NTR?", <<"none", 0, reg>>, NtrCommand_query(dev, reg))
StatPtrQuery ==
    \E reg \in RegisterNames :
        Unit("STAT:PTR?", <<"none", 0, reg>>, PtrCommand_query(dev, reg))
StatEvenQuery ==
    \E reg \in RegisterNames :
        Unit("STAT:EVEN?", <<"none", 0, reg>>, EventCommand_query(dev, reg))
StatCondQuery ==
    \E reg \in RegisterNames :
        Unit("STAT:COND?", <<"none", 0, reg>>, CondCommand_query(dev, reg))
\* The form a handler does not provide is invoked.
ClsQuery == Unit("*CLS?", <<"none", 0>>, ClsCommand_query(dev))
RstQuery == Unit("*RST?", <<"none", 0>>, RstCommand_query(dev))
WaiQuery == Unit("*WAI?", <<"none", 0>>, WaiCommand_query(dev))
StatPresQuery == Unit("STAT:PRES?", <<"none", 0>>, StatPresCommand_query(dev))
AborQuery == Unit("ABOR?", <<"none", 0>>, AbortCommand_query(dev))
Esr == Unit("*ESR", <<"none", 0>>, EsrCommand_event(dev))
Idn == Unit("*IDN", <<"none", 0>>, IdnCommand_event(dev))
Stb == Unit("*STB", <<"none", 0>>, StbCommand_event(dev))
Tst == Unit("*TST", <<"none", 0>>, TstCommand_event(dev))
StatEven ==
    \E reg \in RegisterNames :
        Unit("STAT:EVEN", <<"none", 0, reg>>, EventCommand_event(dev, reg))
StatCond ==
    \E reg \in RegisterNames :
        Unit("STAT:COND", <<"none", 0, reg>>, CondCommand_event(dev, reg))
\* The device itself changes the condition of a register.
SetCondition ==
    /\ op = "dev" /\ nunits < MaxUnits
    /\ nunits' = nunits + 1 /\ path' = path
    /\ \E reg \in RegisterNames, v \in {0, 32773} :
          /\ dev[reg].condition # v
          /\ dev' = set_condition(dev, reg, v)
          /\ call' = Call("condition", <<reg, v>>, dev, set_condition(dev, reg, v),
                          ItemOk(NoToken))
    /\ UNCHANGED <<buf, tk, out, before, ended, overflow_checks, operand>>
    /\ UNCHANGED matchVars

NextDev ==
    \/ Cls \/ Ese \/ EseQuery \/ EsrQuery \/ Rst \/ Sre \/ SreQuery \/ StbQuery
    \/ StatEnab \/ StatNtr \/ StatPtr \/ SetCondition
    \/ StatEnabQuery \/ StatNtrQuery \/ StatPtrQuery \/ StatEvenQuery \/ StatCondQuery
SpecDev == InitDev /\ [][NextDev]_vars

\* The units whose form the handler does not provide, among units and
\* changes of condition that give ESR and the event fields a value.
NextForms ==
    \/ ClsQuery \/ RstQuery \/ WaiQuery \/ StatPresQuery \/ AborQuery
    \/ Esr \/ Idn \/ Stb \/ Tst \/ StatEven \/ StatCond
    \/ Ese \/ EsrQuery \/ StatPtr \/ SetCondition \/ StatEvenQuery
SpecForms == InitDev /\ [][NextForms]_vars

-----------------------------------------------------------------------------
\* The mnemonics of the example's command tree.
SENSe == <<83, 69, 78, 83, 101>>
VOLTage == <<86, 79, 76, 84, 97, 103, 101>>
CURRent == <<67, 85, 82, 82, 101, 110, 116>>
DC == <<68, 67>>
AC == <<65, 67>>

\* A node of the tree, by the names from the root to it, and its handler
\* ("-": none).
Node(names, handler) == [names |-> names, handler |-> handler]

\* The tree built in main(): `*IDN`, `*RST`, `*CLS` and the SENSe subsystem.
ExampleTree ==
    {Node(<<<<42, 73, 68, 78>>>>, "IdnCommand"),
     Node(<<<<42, 82, 83, 84>>>>, "RstCommand"),
     Node(<<<<42, 67, 76, 83>>>>, "RstCommand"),
     Node(<<SENSe>>, "-"),
     Node(<<SENSe, VOLTage>>, "-"),
     Node(<<SENSe, VOLTage, DC>>, "SensVoltDcCommand"),
     Node(<<SENSe, VOLTage, AC>>, "SensVoltAcCommand"),
     Node(<<SENSe, CURRent>>, "-"),
     Node(<<SENSe, CURRent, DC>>, "-"),
     Node(<<SENSe, CURRent, AC>>, "-")}
\* The same with the leaf of ieee488_ese!: `*ESE`.
Tree == ExampleTree \cup {Node(<<<<42, 69, 83, 69>>>>, "EseCommand")}

\* What a handler leaves when it is given the argument cursor t.
Ran(r, t) == [dev |-> r.dev, item |-> r.item, t |-> t]

\* IdnCommand::query with the fields of idn!(b"GPA-Robotics", b"SCPI-RS").
IdnCommand_query(d) == Done(d, Response(<<"GPA-Robotics", "SCPI-RS", "0", "0">>))

\* SensVoltDcCommand and SensVoltAcCommand; what a query writes is the
\* names of its node.
\* a is what `args.next_data(true)` answers.
SensVoltDcCommand_event(d, a) ==
    IF a.item.kind \in {"Err", "Panic"} THEN Ran(Done(d, a.item), a.t)
    ELSE Ran(Done(d, ItemOk(NoToken)), a.t)
SensVoltDcCommand_query(d) == Done(d, Response(<<SENSe, VOLTage, DC>>))
SensVoltAcCommand_event(d) == Done(d, ItemErr("UndefinedHeader"))
SensVoltAcCommand_query(d) == Done(d, Response(<<SENSe, VOLTage, AC>>))

\* EseCommand::event on the cursor: a is what the next_data(false) of
\* Arguments::data answers.
EseCommand_event_args(d, a) ==
    IF a.item.kind = "Ok" THEN Ran(EseCommand_event(d, a.item.tok), a.t)
    ELSE Ran(Done(d, a.item), a.t)

\* The children of the node p, and those a received mnemonic names.
Children(p) ==
    {n \in Tree : Len(n.names) = Len(p) + 1 /\ Take(n.names, Len(p)) = p}
Parent(names) == Take(names, Len(names) - 1)
find_child(p, m) ==
    {n \in Children(p) : eq_mnemonic(Token("ProgramMnemonic", m), Last(n.names))}
\* `*X` among the children of the root.
find_common(m) ==
    {n \in Children(<<>>) :
        /\ Last(n.names)[1] = Ch.star
        /\ eq_mnemonic(Token("ProgramMnemonic", m), Drop(Last(n.names), 1))}

\* The node the mnemonics lead to from the node p: <<names>>, or <<>> when
\* a mnemonic matches no child.
RECURSIVE resolve(_, _)
resolve(p, mnemonics) ==
    IF mnemonics = <<>> THEN <<p>>
    ELSE LET c == find_child(p, mnemonics[1])
         IN  IF c = {} THEN <<>>
             ELSE resolve((CHOOSE n \in c : TRUE).names, Tail(mnemonics))

\* The tokens of one unit, each with the tokenizer it was read from and
\* the tokenizer it left: up to the unit separator or the terminator that
\* ends the unit, or to the end of the input.  An error is passed over to
\* reach the end of the unit; a call that failed and consumed nothing
\* cannot be passed over, and ends the sequence.
Lexed(from, r) == [item |-> r.item, from |-> from, t |-> r.t]
IsTok(e, type) == e.item.kind = "Ok" /\ e.item.tok.type = type
Boundary(e) ==
    IsTok(e, "ProgramMessageUnitSeparator") \/ IsTok(e, "ProgramMessageTerminator")
Stuck(e) == e.item.kind = "Panic" \/ (e.item.kind = "Err" /\ e.t = e.from)
RECURSIVE lex_unit(_, _)
lex_unit_from(t, checks, r) ==
    IF r.item.kind = "None" THEN <<>>
    ELSE IF Boundary(Lexed(t, r)) \/ Stuck(Lexed(t, r)) THEN <<Lexed(t, r)>>
    ELSE <<Lexed(t, r)>> \o lex_unit(r.t, checks)
lex_unit(t, checks) == lex_unit_from(t, checks, next(t, checks))

\* Step 1: the mnemonics from L[i] on, joined by `:`; n is the index of the
\* last token taken.
RECURSIVE header_mnemonics(_, _)
header_mnemonics(L, i) ==
    IF i > Len(L) THEN [err |-> "CommandHeaderError", names |-> <<>>, n |-> i - 1]
    ELSE IF L[i].item.kind # "Ok"
    THEN [err |-> L[i].item.err, names |-> <<>>, n |-> i]
    ELSE IF L[i].item.tok.type # "ProgramMnemonic"
    THEN [err |-> "CommandHeaderError", names |-> <<>>, n |-> i - 1]
    ELSE IF i + 2 <= Len(L) /\ IsTok(L[i + 1], "HeaderMnemonicSeparator")
    THEN LET rest == header_mnemonics(L, i + 2)
         IN  [rest EXCEPT !.names = <<L[i].item.tok.val>> \o @]
    ELSE [err |-> "-", names |-> <<L[i].item.tok.val>>, n |-> i]

\* Steps 1 to 3: how the header starts, its mnemonics, and whether it ends
\* in `?`.
header(L) ==
    LET lead == CASE IsTok(L[1], "HeaderCommonPrefix") -> "common"
                  [] IsTok(L[1], "HeaderMnemonicSeparator") -> "root"
                  [] OTHER -> "relative"
        m == header_mnemonics(L, IF lead = "relative" THEN 1 ELSE 2)
        q == /\ m.err = "-" /\ m.n + 1 <= Len(L)
             /\ IsTok(L[m.n + 1], "HeaderQuerySuffix")
    IN  [err |-> m.err, lead |-> lead, names |-> m.names, query |-> q,
         n |-> IF q THEN m.n + 1 ELSE m.n]

\* Step 6: the entry point of the node's handler, on the argument cursor t;
\* a is what the one next_data call of an event that reads its arguments
\* answers on t.
optional_data(n) == n.handler = "SensVoltDcCommand"
invoke(n, query, d, t, a) ==
    CASE n.handler = "IdnCommand" ->
           Ran(IF query THEN IdnCommand_query(d) ELSE IdnCommand_event(d), t)
      [] n.handler = "RstCommand" ->
           Ran(IF query THEN RstCommand_query(d) ELSE RstCommand_event(d), t)
      [] n.handler = "EseCommand" ->
           IF query THEN Ran(EseCommand_query(d), t)
           ELSE EseCommand_event_args(d, a)
      [] n.handler = "SensVoltDcCommand" ->
           IF query THEN Ran(SensVoltDcCommand_query(d), t)
           ELSE SensVoltDcCommand_event(d, a)
      [] n.handler = "SensVoltAcCommand" ->
           Ran(IF query THEN SensVoltAcCommand_query(d)
               ELSE SensVoltAcCommand_event(d), t)
      [] OTHER -> Ran(Done(d, ItemErr("CommandHeaderError")), t)

\* Step 8: the cursor t is at the end of the unit L.
at_boundary(L, t) ==
    LET at == {i \in 1..Len(L) : L[i].from = t}
    IN  IF at = {} THEN ItemOk(NoToken)
        ELSE LET e == L[Min(at)]
             IN  IF Boundary(e) THEN ItemOk(NoToken)
                 ELSE IF e.item.kind = "Ok" THEN ItemErr("InvalidSeparator")
                 ELSE e.item

\* A step 7 that takes the path of a common command for the root.
path_after_common_resets(lead, names, p) ==
    IF lead = "common" THEN <<>> ELSE Parent(names)
\* Step 7: the header path after a unit that resolved to the node `names`.
path_after(lead, names, p) == IF lead = "common" THEN p ELSE Parent(names)

\* Steps 2 to 4: the nodes the header h names, with the saved header path p.
find_node(h, p) ==
    CASE h.err # "-" -> {}
      [] h.lead = "common" -> find_common(h.names[1])
      [] h.lead = "root" -> {n \in Tree : <<n.names>> = resolve(<<>>, h.names)}
      [] OTHER -> {n \in Tree : <<n.names>> = resolve(p, h.names)}
\* The tokenizer the arguments are read from: the one after the header and
\* the header separator, if there is one.
args_of(L, h) ==
    IF h.n + 1 <= Len(L) /\ IsTok(L[h.n + 1], "ProgramHeaderSeparator")
    THEN L[h.n + 1].t ELSE L[h.n].t
\* What the unit answers: the error of its header, of the lookup, of the
\* handler or of step 8, or else what the handler answered.
unit_result(d, h, found, L, ran) ==
    CASE h.err # "-" -> Done(d, ItemErr(h.err))
      [] found = {} -> Done(d, ItemErr("UndefinedHeader"))
      [] ran.item.kind # "Ok" -> Done(ran.dev, ran.item)
      [] OTHER ->
           Done(ran.dev, IF at_boundary(L, ran.t).kind = "Ok" THEN ran.item
                         ELSE at_boundary(L, ran.t))
\* The error policy: the error is recorded, the rest of the unit passed
\* over; a unit that cannot be passed over ends the message.
unit_end(p, h, node, e, r) ==
    [dev |-> after_unit(r), item |-> r.item, lead |-> h.lead, node |-> node.names,
     path |-> IF r.item.kind = "Ok" THEN path_after(h.lead, node.names, p) ELSE p,
     aborted |-> r.item.kind # "Ok" /\ Stuck(e),
     t |-> IF r.item.kind # "Ok" /\ Stuck(e) THEN Advance(e.t, Len(e.t.chars))
           ELSE e.t]
dispatch_node(d, p, checks, L, h, found, node) ==
    unit_end(p, h, node, Last(L),
             unit_result(d, h, found, L,
                         IF found = {} THEN Ran(Done(d, ItemNone), L[1].from)
                         ELSE invoke(node, h.query, d, args_of(L, h),
                                     next_data(args_of(L, h), optional_data(node),
                                               checks))))
dispatch_found(d, p, checks, L, h, found) ==
    dispatch_node(d, p, checks, L, h, found,
                  IF found = {} THEN Node(<<>>, "-") ELSE CHOOSE n \in found : TRUE)
dispatch_header(d, p, checks, L, h) ==
    dispatch_found(d, p, checks, L, h, find_node(h, p))
dispatch_lexed(d, p, checks, L) == dispatch_header(d, p, checks, L, header(L))
\* One unit of the message is dispatched from the tokenizer t with the
\* saved header path p.
dispatch(d, p, t, checks) == dispatch_lexed(d, p, checks, lex_unit(t, checks))

\* The units a message is made of:
\*   `SENS:VOLT:DC?`, `*IDN? `, `*RST`, `AC?`, `:SENS:CURR:DC`, `*ESE 256`,
\*   `DC 1,,2` and `1`.
UnitTexts ==
    {<<83, 69, 78, 83, 58, 86, 79, 76, 84, 58, 68, 67, 63>>,
     <<42, 73, 68, 78, 63, 32>>,
     <<42, 82, 83, 84>>,
     <<65, 67, 63>>,
     <<58, 83, 69, 78, 83, 58, 67, 85, 82, 82, 58, 68, 67>>,
     <<42, 69, 83, 69, 32, 50, 53, 54>>,
     <<68, 67, 32, 49, 44, 44, 50>>,
     <<49>>}
\* The units of a message joined by `; `.
RECURSIVE Join(_)
Join(units) ==
    IF Len(units) = 1 THEN units[1]
    ELSE units[1] \o <<Ch.semi, 32>> \o Join(Tail(units))
Messages == {Join(m) : m \in UNION {[1..k -> UnitTexts] : k \in 1..MaxMsgUnits}}

InitRun ==
    /\ buf \in Messages
    /\ tk = Tokenizer_new(buf)
    /\ out = <<>> /\ before = <<>>
    /\ ended = FALSE
    /\ overflow_checks = FALSE
    /\ call = NoCall
    /\ operand = NoToken
    /\ dev = TestDevice_new /\ nunits = 0 /\ path = <<>>
    /\ canonical = <<>> /\ received = <<>> /\ received2 = <<>>
    /\ op = "run"
    /\ cmp = FALSE /\ cmp2 = FALSE /\ eqm = FALSE /\ eqm2 = FALSE
    /\ split = None

\* The dispatcher takes the next unit of the message.
RunUnit ==
    /\ op = "run" /\ tk.chars # <<>>
    /\ \E u \in {dispatch(dev, path, tk, overflow_checks)} :
          /\ dev' = u.dev /\ path' = u.path /\ tk' = u.t
          /\ nunits' = nunits + 1
          /\ ended' = u.aborted
          /\ out' = Append(out, u.item)
          /\ before' = Append(before, tk)
          /\ call' = Call("unit", <<u.lead, u.node>>, dev, u.dev, u.item)
    /\ UNCHANGED <<buf, overflow_checks, operand>>
    /\ UNCHANGED matchVars

NextRun == RunUnit
SpecRun == InitRun /\ [][NextRun]_vars

\* Short buffers over the bytes of headers, separators and simple data:
\* `A`, `1`, space, newline, `,`, `;`, `?`, `:`, `*`.
LexAlphabet == {65, 49, 32, 10, 44, 59, 63, 58, 42}
SpecLex == InitLex(Strs(LexAlphabet, MaxBufLen)) /\ [][NextLex]_vars

\* Data after the header `A `: `#`, the digits `0` `2`, the radix letters `B`
\* `Q`, the letter `F`, a sign, `.` and a newline.
TotalAlphabet == {35, 48, 50, 66, 81, 70, 43, 46, 10}
TotalBufs == {<<65, 32>> \o body : body \in Strs(TotalAlphabet, MaxTotalLen)}
SpecTotal == InitLex(TotalBufs) /\ [][NextLex]_vars

\* Headers: `A`, `*`, `:`, `?`, `;` and space.
HeadAlphabet == {65, 42, 58, 63, 59, 32}
SpecHead == InitLex(Strs(HeadAlphabet, MaxHeadLen)) /\ [][NextLex]_vars

\* A prefix over `A`, `1`, space, `;`, `?`, `*`, then one byte of any kind
\* the lexer tells apart (`A`, `1`, `+`, `.`, `#`, `"`, `/`, `,`, `:`, `?`,
\* `;`, space, newline), then nothing, `A` or `1`.
PreAlphabet == {65, 49, 32, 59, 63, 42}
PosBytes == {65, 49, 43, 46, 35, 34, 47, 44, 58, 63, 59, 32, 10}
PosBufs ==
    {pre \o <<c>> \o post : pre \in Strs(PreAlphabet, MaxPreLen), c \in PosBytes,
                             post \in Strs({65, 49}, 1)}
InitPos == InitLex(PosBufs) /\ overflow_checks = FALSE
SpecPos == InitPos /\ [][NextLex]_vars

\* The unit `A 1` followed by bytes among `A`, space, `;`, `,`.
SufBufs == {<<65, 32, 49>> \o body : body \in Strs({65, 32, 59, 44}, MaxSufLen)}
SpecSuf == InitLex(SufBufs) /\ [][NextLex]_vars

\* Literals one digit short of 32 bits, `#HFFFFFFF`, `#Q3777777777` and `#B`
\* with 31 digits `1`, after the header `A `, followed by digits `0`, `1`.
WideLiterals ==
    {<<35, 72, 70, 70, 70, 70, 70, 70, 70>>,
     <<35, 81, 51, 55, 55, 55, 55, 55, 55, 55, 55, 55>>,
     <<35, 66>> \o [k \in 1..31 |-> 49]}
WideBufs ==
    {<<65, 32>> \o lit \o digits :
        lit \in WideLiterals, digits \in Strs({48, 49}, MaxWideLen)}
SpecWide == InitLex(WideBufs) /\ [][NextLex]_vars

\* A data item of each kind, the bytes before it and the call that reads it:
\* `ab`, `1`, `-1.5`, `V` after `1`, `#H1F`, `#B10`, 'a', "a", `#12ab`, `(1)`.
DataSamples ==
    { [pre |-> <<65, 32>>, text |-> <<97, 98>>, at |-> 3],
      [pre |-> <<65, 32>>, text |-> <<49>>, at |-> 3],
      [pre |-> <<65, 32>>, text |-> <<45, 49, 46, 53>>, at |-> 3],
      [pre |-> <<65, 32, 49>>, text |-> <<86>>, at |-> 4],
      [pre |-> <<65, 32>>, text |-> <<35, 72, 49, 70>>, at |-> 3],
      [pre |-> <<65, 32>>, text |-> <<35, 66, 49, 48>>, at |-> 3],
      [pre |-> <<65, 32>>, text |-> <<39, 97, 39>>, at |-> 3],
      [pre |-> <<65, 32>>, text |-> <<34, 97, 34>>, at |-> 3],
      [pre |-> <<65, 32>>, text |-> <<35, 49, 50, 97, 98>>, at |-> 3],
      [pre |-> <<65, 32>>, text |-> <<40, 49, 41>>, at |-> 3] }
\* What may follow it: space, newline, `,`, `;`, `x`, `1`, `"`.
TailAlphabet == {32, 10, 44, 59, 120, 49, 34}
DataBufs ==
    {d.pre \o d.text \o tail : d \in DataSamples, tail \in Strs(TailAlphabet, MaxTailLen)}
SpecData == InitLex(DataBufs) /\ [][NextLex]_vars

\* A run of n bytes, a letter and then n - 1 times the byte c, in header
\* position, as the first data item and after a number, followed by nothing,
\* `,`, `;` or ` ,`.
RunOf(n, c) == [i \in 1..n |-> IF i = 1 THEN 97 ELSE c]
RunBytes == {97, 49, 95, 47}
RunBufs ==
    {pre \o RunOf(n, c) \o post :
        pre \in {<<>>, <<65, 32>>, <<65, 32, 49>>},
        n \in 1..MaxRunLen, c \in RunBytes,
        post \in {<<>>, <<44>>, <<59>>, <<32, 44>>}}
SpecLen == InitLex(RunBufs) /\ [][NextLex]_vars

\* A string in argument position: a quote and then any bytes among `'`, `"`,
\* `a`, the non-ASCII byte 0xFF, `,` and space.
StrAlphabet == {39, 34, 97, 255, 44, 32}
StrBufs ==
    {<<65, 32, q>> \o body : q \in {39, 34}, body \in Strs(StrAlphabet, MaxStrLen)}
SpecStr == InitLex(StrBufs) /\ [][NextLex]_vars

\* A block in argument position: `#` and then any bytes among `0`, `1`, `2`,
\* `a`, newline, `,` and the non-ASCII byte 0xFF.
BlockAlphabet == {48, 49, 50, 97, 10, 44, 255}
BlockBufs == {<<65, 32, 35>> \o body : body \in Strs(BlockAlphabet, MaxBlockLen)}
SpecBlock == InitLex(BlockBufs) /\ [][NextLex]_vars

\* A non-decimal number in argument position: `#`, a radix letter of either
\* case and then any bytes among `0`, `1`, `2`, `7`, `8`, `9`, `F`, `f`, `G`,
\* `a`, `z` and `,`.
RadixLetters == {72, 104, 81, 113, 66, 98}
RadixAlphabet == {48, 49, 50, 55, 56, 57, 70, 102, 71, 97, 122, 44}
RadixBufs ==
    {<<65, 32, 35, r>> \o body :
        r \in RadixLetters, body \in Strs(RadixAlphabet, MaxRadixLen)}
SpecRadix == InitLex(RadixBufs) /\ [][NextLex]_vars

-----------------------------------------------------------------------------
(* What the claims about the lexer speak of.                               *)

\* A program message of IEEE 488.2 in its plainest form: units separated by
\* `;`, each a header (`*` and a mnemonic, or mnemonics joined by `:` after an
\* optional leading `:`, and an optional `?`), then optionally a space and
\* data items (numbers or character data) separated by `,`; a newline ends
\* the message.  The recognizer is a finite automaton over the bytes.
Letter == (65..90) \cup (97..122)
Digit == 48..57
Delta(q, c) ==
    CASE q = "unit" /\ c = 42 -> "star"
      [] q = "unit" /\ c = 58 -> "colon"
      [] q = "unit" /\ c \in Letter -> "mnemonic"
      [] q = "star" /\ c \in Letter -> "common"
      [] q = "colon" /\ c \in Letter -> "mnemonic"
      [] q = "common" /\ c \in Letter \cup Digit -> "common"
      [] q = "mnemonic" /\ c \in Letter \cup Digit -> "mnemonic"
      [] q = "mnemonic" /\ c = 58 -> "colon"
      [] q \in {"common", "mnemonic"} /\ c = 63 -> "query"
      [] q \in {"common", "mnemonic", "query"} /\ c = 32 -> "space"
      [] q \in {"common", "mnemonic", "query", "number", "chardata"} /\ c = 59 -> "unit"
      [] q \in {"common", "mnemonic", "query", "number", "chardata"} /\ c = 10 -> "end"
      [] q = "space" /\ c = 32 -> "space"
      [] q \in {"space", "comma"} /\ c \in Digit -> "number"
      [] q \in {"space", "comma"} /\ c \in Letter -> "chardata"
      [] q = "number" /\ c \in Digit -> "number"
      [] q = "chardata" /\ c \in Letter \cup Digit -> "chardata"
      [] q \in {"number", "chardata"} /\ c = 44 -> "comma"
      [] OTHER -> "reject"
RECURSIVE Run(_, _)
Run(q, b) == IF b = <<>> THEN q ELSE Run(Delta(q, b[1]), Drop(b, 1))
ValidMessage(b) == Run("unit", b) = "end"

IsTerminator(item) ==
    item.kind = "Ok" /\ item.tok.type = "ProgramMessageTerminator"
NoError == \A i \in 1..Len(out) : out[i].kind = "Ok"

\* C6: lexing a valid program message that ends in a newline yields no error
\* and a token sequence with exactly one ProgramMessageTerminator, its last.
C6_ValidMessageLexes ==
    (ended /\ ValidMessage(buf)) =>
        /\ NoError
        /\ out # <<>> /\ IsTerminator(Last(out))
        /\ Cardinality({i \in 1..Len(out) : IsTerminator(out[i])}) = 1

\* The tokenizer the i-th call left behind.
After(i) == IF i < Len(before) THEN before[i + 1] ELSE tk
\* seq without its leading blanks (space, tab, form feed, carriage return).
SkipBlanks(seq) ==
    Drop(seq, Min({k \in 1..Len(seq) : seq[k] \notin {32, 9, 12, 13}}
                  \cup {Len(seq) + 1}) - 1)

\* C8: a `,` met in header position yields HeaderSeparatorError; outside the
\* header it yields ProgramDataSeparator and clears in_numeric, except that a
\* `,` followed, after optional blanks, by another `,`, by `;` or by the
\* terminating newline yields an error: no empty data item is accepted.
C8_DataSeparator ==
    \A i \in 1..Len(out) :
        (before[i].chars[1] = 44) =>
            IF before[i].in_header
            THEN out[i] = ItemErr("HeaderSeparatorError")
            ELSE LET rest == SkipBlanks(Drop(before[i].chars, 1))
                 IN  IF rest # <<>> /\ rest[1] \in {44, 59, 10}
                     THEN out[i].kind = "Err"
                     ELSE /\ out[i] = ItemOk(Token("ProgramDataSeparator", <<>>))
                          /\ ~After(i).in_numeric

\* seq without its leading ASCII whitespace.
SkipWs(seq) ==
    Drop(seq, Min({k \in 1..Len(seq) : seq[k] \notin {32, 9, 10, 12, 13}}
                  \cup {Len(seq) + 1}) - 1)
\* After optional whitespace nothing follows, or `,`, `;` or a newline.
FollowOk(rest) == SkipWs(rest) = <<>> \/ SkipWs(rest)[1] \in {44, 59, 10}
\* The bytes after a data item do not continue it.
Detached(rest) == rest = <<>> \/ rest[1] \in {32, 9, 10, 12, 13, 44, 59}

\* The token a data sample is, and the error that stands for it when a byte
\* that is no separator follows.
SampleToken(d) ==
    CASE d.text = <<97, 98>> -> Token("CharacterProgramData", <<97, 98>>)
      [] d.text = <<49>> ->
            Token("DecimalNumericProgramData", [neg |-> FALSE, mant |-> 1, exp |-> 0])
      [] d.text = <<45, 49, 46, 53>> ->
            Token("DecimalNumericProgramData", [neg |-> TRUE, mant |-> 15, exp |-> -1])
      [] d.text = <<86>> -> Token("SuffixProgramData", <<86>>)
      [] d.text = <<35, 72, 49, 70>> ->
            Token("NonDecimalNumericProgramData", [hi |-> 0, lo |-> 31])
      [] d.text = <<35, 66, 49, 48>> ->
            Token("NonDecimalNumericProgramData", [hi |-> 0, lo |-> 2])
      [] d.text = <<39, 97, 39>> -> Token("StringProgramData", <<97>>)
      [] d.text = <<34, 97, 34>> -> Token("StringProgramData", <<97>>)
      [] d.text = <<35, 49, 50, 97, 98>> -> Token("ArbitraryBlockData", <<97, 98>>)
      [] d.text = <<40, 49, 41>> -> Token("ExpressionProgramData", <<49>>)
SampleError(d) ==
    CASE SampleToken(d).type = "CharacterProgramData" -> "InvalidCharacterData"
      [] SampleToken(d).type \in {"SuffixProgramData", "ExpressionProgramData"} ->
            "InvalidSuffix"
      [] OTHER -> "InvalidSeparator"
\* buf is the sample d in its place, followed by bytes that do not continue it.
HoldsSample(d) ==
    /\ IsPrefixOf(d.pre \o d.text, buf)
    /\ Detached(Drop(buf, Len(d.pre \o d.text)))
    /\ Len(out) >= d.at
TailOf(d) == Drop(buf, Len(d.pre \o d.text))

DataTypes ==
    {"CharacterProgramData", "DecimalNumericProgramData",
     "NonDecimalNumericProgramData", "SuffixProgramData", "StringProgramData",
     "ArbitraryBlockData", "ExpressionProgramData"}

\* C7 as stated: after every complete data token, a decimal numeric
\* included, the lexer skips whitespace and, if a byte follows that is not
\* `,`, `;` or a newline, returns an error instead of the token.
C7_SeparatorAfterAnyData ==
    /\ \A i \in 1..Len(out) :
          (out[i].kind = "Ok" /\ out[i].tok.type \in DataTypes) =>
              FollowOk(After(i).chars)
    /\ \A d \in DataSamples :
          HoldsSample(d) =>
              IF FollowOk(TailOf(d)) THEN out[d.at] = ItemOk(SampleToken(d))
              ELSE /\ out[d.at].kind = "Err"
                   /\ out[d.at].err \in
                        {"InvalidSuffix", "InvalidCharacterData", "InvalidSeparator"}

\* C7, amended: after every complete data token other than a decimal numeric
\* the lexer skips whitespace and, if a byte follows that is not `,`, `;` or
\* a newline, returns an error (InvalidCharacterData after character data,
\* InvalidSuffix after a suffix or an expression, InvalidSeparator after a
\* non-decimal numeric, a string or a definite block) instead of the token;
\* after a decimal numeric it skips whitespace and returns the token whatever
\* follows.
C7_SeparatorAfterData ==
    /\ \A i \in 1..Len(out) :
          (out[i].kind = "Ok"
             /\ out[i].tok.type \in DataTypes \ {"DecimalNumericProgramData"}) =>
              FollowOk(After(i).chars)
    /\ \A d \in DataSamples :
          HoldsSample(d) =>
              IF SampleToken(d).type = "DecimalNumericProgramData"
              THEN /\ out[d.at] = ItemOk(SampleToken(d))
                   /\ After(d.at).chars = SkipWs(TailOf(d))
              ELSE IF FollowOk(TailOf(d)) THEN out[d.at] = ItemOk(SampleToken(d))
              ELSE out[d.at] = ItemErr(SampleError(d))

\* Character data followed by a blank and a byte that is no separator has
\* been answered with InvalidCharacterData.
C7_Witness ==
    /\ \E d \in DataSamples :
          /\ HoldsSample(d) /\ ~FollowOk(TailOf(d)) /\ TailOf(d)[1] = 32
          /\ SampleToken(d).type = "CharacterProgramData"
          /\ out[d.at] = ItemErr("InvalidCharacterData")

\* The bytes of a mnemonic or of character data, and those of a suffix.
MnemonicBytes == Letter \cup Digit \cup {95}
SuffixBytes == Letter \cup Digit \cup {45, 47, 46}
RunLen(seq, S) ==
    Min({k \in 1..Len(seq) : seq[k] \notin S} \cup {Len(seq) + 1}) - 1
\* Where a run is read: what precedes it, the call that reads it, the token
\* it becomes and the error of a run that is too long.
RunCases ==
    { [pre |-> <<>>, at |-> 1, type |-> "ProgramMnemonic",
       bytes |-> MnemonicBytes, err |-> "ProgramMnemonicTooLong"],
      [pre |-> <<65, 32>>, at |-> 3, type |-> "CharacterProgramData",
       bytes |-> MnemonicBytes, err |-> "CharacterDataTooLong"],
      [pre |-> <<65, 32, 49>>, at |-> 4, type |-> "SuffixProgramData",
       bytes |-> SuffixBytes, err |-> "SuffixTooLong"] }
HoldsRun(k) ==
    /\ IsPrefixOf(k.pre, buf)
    /\ Len(buf) > Len(k.pre)
    /\ buf[Len(k.pre) + 1] \in Letter
    /\ Len(out) >= k.at

\* C9: a program mnemonic, a character-data item and a suffix of 1 to 12 bytes
\* are accepted as one token holding exactly those bytes; a run of 13 or more
\* bytes is rejected with ProgramMnemonicTooLong, CharacterDataTooLong and
\* SuffixTooLong; no truncated token is returned.
C9_LengthLimits ==
    /\ \A k \in RunCases :
          HoldsRun(k) =>
              LET rest == Drop(buf, Len(k.pre))
                  n == RunLen(rest, k.bytes)
              IN  IF n >= 13 THEN out[k.at] = ItemErr(k.err)
                  ELSE (k.type = "ProgramMnemonic" \/ FollowOk(Drop(rest, n))) =>
                          out[k.at] = ItemOk(Token(k.type, Take(rest, n)))
    /\ \A i \in 1..Len(out) :
          (out[i].kind = "Ok" /\ out[i].tok.type \in
              {"ProgramMnemonic", "CharacterProgramData", "SuffixProgramData"}) =>
             Len(out[i].tok.val) \in 1..12

\* A suffix of exactly 12 bytes has been accepted whole.
C9_Witness ==
    /\ Len(out) >= 4
    /\ out[4].kind = "Ok" /\ out[4].tok.type = "SuffixProgramData"
    /\ Len(out[4].tok.val) = 12

\* The string of a buffer of StrBufs: its quote and the bytes after it.
StrQuote == buf[3]
StrBody == Drop(buf, 3)
\* The length of the run of quotes that ends at position i of the body.
QuoteRun(i) ==
    i - Max({j \in 1..i : StrBody[j] # StrQuote} \cup {0})
\* Position i holds the closing quote: a quote that is not followed by a
\* quote and is not the second of a doubled one.
Closes(i) ==
    /\ StrBody[i] = StrQuote
    /\ (i = Len(StrBody) \/ StrBody[i + 1] # StrQuote)
    /\ QuoteRun(i) % 2 = 1
CloseAt == Min({i \in 1..Len(StrBody) : Closes(i)} \cup {Len(StrBody) + 1})
IsStrBuf == Len(buf) >= 3 /\ Take(buf, 2) = <<65, 32>> /\ buf[3] \in {39, 34}

\* C10: a string opened with a quote ends at the first such quote that is
\* not doubled; the token holds the raw bytes between the outer quotes,
\* doubled quotes kept doubled.  A byte that is not ASCII inside the string
\* yields InvalidCharacter, and the end of input before a closing quote
\* yields InvalidStringData.
C10_StringData ==
    (IsStrBuf /\ Len(out) >= 3) =>
        IF \E j \in 1..(CloseAt - 1) : j <= Len(StrBody) /\ StrBody[j] > 127
        THEN out[3] = ItemErr("InvalidCharacter")
        ELSE IF CloseAt > Len(StrBody)
        THEN out[3] = ItemErr("InvalidStringData")
        ELSE IF FollowOk(Drop(StrBody, CloseAt))
        THEN out[3] = ItemOk(Token("StringProgramData", Take(StrBody, CloseAt - 1)))
        ELSE out[3].kind = "Err"

\* A string holding a doubled quote has been returned with the quote doubled.
C10_Witness ==
    /\ IsStrBuf /\ Len(out) >= 3
    /\ out[3].kind = "Ok" /\ out[3].tok.type = "StringProgramData"
    /\ \E j \in 1..(Len(out[3].tok.val) - 1) :
          out[3].tok.val[j] = StrQuote /\ out[3].tok.val[j + 1] = StrQuote

\* The block of a buffer of BlockBufs: the digit after `#` and what follows.
IsBlockBuf == Len(buf) >= 4 /\ Take(buf, 3) = <<65, 32, 35>> /\ buf[4] \in Digit
BlockDigit == buf[4] - 48
BlockRest == Drop(buf, 4)
\* The value of a string of decimal digits.
RECURSIVE DecValue(_)
DecValue(d) ==
    IF d = <<>> THEN 0 ELSE 10 * DecValue(Take(d, Len(d) - 1)) + (d[Len(d)] - 48)
\* The length field of a definite block is BlockDigit decimal digits.
LengthFieldOk ==
    /\ Len(BlockRest) >= BlockDigit
    /\ \A j \in 1..BlockDigit : BlockRest[j] \in Digit
DeclaredLen == DecValue(Take(BlockRest, BlockDigit))
Payload == Drop(BlockRest, BlockDigit)

\* C11: for `#<n><len><bytes>` with n a non-zero digit and <len> exactly n
\* decimal digits the lexer yields ArbitraryBlockData holding exactly the len
\* bytes after the length field, whatever their values (a separator or
\* nothing following); if the length field is not n decimal digits or the
\* declared length exceeds the bytes that remain, the result is the error
\* InvalidBlockData.
C11_DefiniteBlock ==
    (IsBlockBuf /\ BlockDigit # 0 /\ Len(out) >= 3) =>
        IF ~LengthFieldOk THEN out[3] = ItemErr("InvalidBlockData")
        ELSE IF DeclaredLen > Len(Payload) THEN out[3] = ItemErr("InvalidBlockData")
        ELSE FollowOk(Drop(Payload, DeclaredLen)) =>
                out[3] = ItemOk(Token("ArbitraryBlockData", Take(Payload, DeclaredLen)))

\* C12: for `#0<bytes>` the lexer consumes the whole rest of the buffer and
\* yields ArbitraryBlockData holding every remaining byte except the last
\* when that last byte is a newline; when the buffer does not end in a
\* newline the result is the error InvalidBlockData.
C12_IndefiniteBlock ==
    (IsBlockBuf /\ BlockDigit = 0 /\ Len(out) >= 3) =>
        IF BlockRest # <<>> /\ Last(BlockRest) = 10
        THEN /\ out[3] = ItemOk(Token("ArbitraryBlockData",
                                      Take(BlockRest, Len(BlockRest) - 1)))
             /\ After(3).chars = <<>>
        ELSE out[3] = ItemErr("InvalidBlockData")

\* The non-decimal number of a buffer of RadixBufs: its radix and the run of
\* letters and digits after the radix letter.
IsRadixBuf ==
    Len(buf) >= 4 /\ Take(buf, 3) = <<65, 32, 35>> /\ buf[4] \in RadixLetters
RadixOf ==
    IF buf[4] \in {72, 104} THEN 16 ELSE IF buf[4] \in {81, 113} THEN 8 ELSE 2
RadixRun == Take(Drop(buf, 4), RunLen(Drop(buf, 4), Letter \cup Digit))
\* c is a digit of the radix.
IsDigitOf(c, radix) ==
    \/ c \in Digit /\ c - 48 < radix
    \/ radix = 16 /\ c \in (65..70) \cup (97..102)

\* C13: after `#H`, `#Q` or `#B` (either case) every digit of the literal
\* must be a digit of radix 16, 8 or 2; a byte of the literal that is not a
\* digit of that radix yields InvalidCharacterInNumber and never contributes
\* to a returned value.
C13_NonDecimalDigits ==
    (IsRadixBuf /\ Len(out) >= 3) =>
        /\ (\E j \in 1..Len(RadixRun) : ~IsDigitOf(RadixRun[j], RadixOf)) =>
              out[3] = ItemErr("InvalidCharacterInNumber")
        /\ out[3].kind = "Ok" =>
              \A j \in 1..Len(RadixRun) : IsDigitOf(RadixRun[j], RadixOf)

\* The last call was next_data or next_separator, and the token that next()
\* finds where the call started.
CalledData == call.op = "next_data"
CalledSeparator == call.op = "next_separator"
Ahead == next(call.from, overflow_checks)
AheadIs(types) == Ahead.item.kind = "Ok" /\ Ahead.item.tok.type \in types
AtEndOfUnit ==
    \/ Ahead.item.kind = "None"
    \/ AheadIs({"ProgramMessageUnitSeparator", "ProgramMessageTerminator"})
\* The token that next() finds after the data separator that is ahead.
Second == next(Ahead.t, overflow_checks)

\* C14: next_data(optional) consumes and returns a data token that is next;
\* it consumes a leading ProgramDataSeparator, after which a data token is
\* mandatory (MissingParameter if absent, even when optional); when a unit
\* separator, a message terminator or the end of input is next, the result
\* is Ok(None) when optional and Err(MissingParameter) otherwise and the
\* cursor has not moved.
C14_NextData ==
    CalledData =>
        /\ AheadIs(DataTypes) =>
              call.result = Ahead.item /\ call.to = Ahead.t
        /\ AheadIs({"ProgramDataSeparator"}) =>
              /\ (Second.item.kind = "Ok" /\ Second.item.tok.type \in DataTypes) =>
                    call.result = Second.item /\ call.to = Second.t
              /\ (Second.item.kind = "None"
                    \/ (Second.item.kind = "Ok" /\ Second.item.tok.type \notin DataTypes)) =>
                    /\ call.result = ItemErr("MissingParameter")
                    /\ Len(call.to.chars) < Len(call.from.chars)
        /\ AtEndOfUnit =>
              /\ call.result =
                    IF call.arg THEN ItemNone ELSE ItemErr("MissingParameter")
              /\ call.to = call.from

\* An optional next_data has met a data separator with no data after it and
\* answered MissingParameter.
C14_Witness ==
    /\ CalledData /\ call.arg
    /\ AheadIs({"ProgramDataSeparator"})
    /\ Second.item.kind = "None"
    /\ call.result = ItemErr("MissingParameter")

\* C15: next_separator() consumes a ProgramDataSeparator that is next and
\* answers Ok; a unit separator, a message terminator or the end of input
\* gives Ok and is not consumed; a suffix gives SuffixNotAllowed and any
\* other token InvalidSeparator; in every outcome other than the consumed
\* data separator the cursor has not moved.
C15_NextSeparator ==
    CalledSeparator =>
        /\ AheadIs({"ProgramDataSeparator"}) =>
              call.result = ItemOk(NoToken) /\ call.to = Ahead.t
        /\ AtEndOfUnit => call.result = ItemOk(NoToken)
        /\ AheadIs({"SuffixProgramData"}) =>
              call.result = ItemErr("SuffixNotAllowed")
        /\ (Ahead.item.kind = "Ok"
              /\ Ahead.item.tok.type \notin
                    {"ProgramDataSeparator", "ProgramMessageUnitSeparator",
                     "ProgramMessageTerminator", "SuffixProgramData"}) =>
              call.result = ItemErr("InvalidSeparator")
        /\ ~AheadIs({"ProgramDataSeparator"}) => call.to = call.from

\* next_separator has met a unit separator after a number, answered Ok and
\* left it in place.
C15_Witness ==
    /\ CalledSeparator
    /\ AheadIs({"ProgramMessageUnitSeparator"})
    /\ call.from.in_numeric
    /\ call.result = ItemOk(NoToken)
    /\ call.to = call.from

\* The last call was <ty>::try_from(token), and the limits of ty.
CalledTryFrom == call.op = "try_from"
TargetSigned == IsSigned(call.arg.ty)
TargetWidth == WidthOf(call.arg.ty, call.arg.pointer_width)
InTargetRange(n) ==
    IF n.neg THEN BigLE(n.digits, TypeMinMag(TargetSigned, TargetWidth))
    ELSE BigLE(n.digits, TypeMax(TargetSigned, TargetWidth))

\* C16: the integer conversion of a data token turns a finite decimal
\* numeric into its value rounded to the nearest integer when that integer
\* lies in the range of the target type and into Err(DataOutOfRange)
\* otherwise; a non-decimal numeric into its value when in range and into
\* DataOutOfRange otherwise; character, string, suffix and block data into
\* DataTypeError; a token that is no data into SyntaxError.  No conversion
\* returns a truncated or wrapped value.
C16_IntegerConversion ==
    CalledTryFrom =>
        CASE operand.type = "DecimalNumericProgramData" ->
               IF is_finite(operand.val) /\ InTargetRange(round(operand.val))
               THEN call.result = ItemOk(Token("Integer", round(operand.val)))
               ELSE call.result = ItemErr("DataOutOfRange")
          [] operand.type = "NonDecimalNumericProgramData" ->
               IF FitsU32(operand.val, TargetSigned, TargetWidth)
               THEN call.result = ItemOk(Token("Integer", operand.val))
               ELSE call.result = ItemErr("DataOutOfRange")
          [] operand.type \in {"CharacterProgramData", "StringProgramData",
                             "SuffixProgramData", "ArbitraryBlockData"} ->
               call.result = ItemErr("DataTypeError")
          [] operand.type \in {"ProgramMnemonic", "ProgramDataSeparator",
                             "ProgramMessageUnitSeparator",
                             "ProgramMessageTerminator", "HeaderQuerySuffix"} ->
               call.result = ItemErr("SyntaxError")
          [] OTHER -> TRUE

\* The last call was operand.numeric_range(min, max, num).
CalledRange == call.op = "numeric_range"
\* The special value that character data names, in short or long form and
\* any case; "-" if none.
NamedKind(x) ==
    CASE SameIgnoringCase(x, <<77, 65, 88>>)
           \/ SameIgnoringCase(x, <<77, 65, 88, 73, 77, 85, 77>>) -> "Maximum"
      [] SameIgnoringCase(x, <<77, 73, 78>>)
           \/ SameIgnoringCase(x, <<77, 73, 78, 73, 77, 85, 77>>) -> "Minimum"
      [] SameIgnoringCase(x, <<68, 69, 70>>)
           \/ SameIgnoringCase(x, <<68, 69, 70, 65, 85, 76, 84>>) -> "Default"
      [] SameIgnoringCase(x, <<85, 80>>) -> "Up"
      [] SameIgnoringCase(x, <<68, 79, 87, 78>>) -> "Down"
      [] OTHER -> "-"
\* What numeric_range starts from: the resolver's answer for character data
\* that names a special value, the conversion of the operand otherwise.
RangeSource ==
    IF operand.type = "CharacterProgramData" /\ NamedKind(operand.val) # "-"
    THEN call.arg.num[NamedKind(operand.val)]
    ELSE try_from(call.arg.R, operand)
\* min <= v <= max
WithinRange(v) ==
    /\ ~is_nan(v)
    /\ Tenths(call.arg.min) <= Tenths(v)
    /\ Tenths(v) <= Tenths(call.arg.max)

\* C17: numeric_range(min, max, resolver) returns Ok(v) only when
\* min <= v <= max and Err(DataOutOfRange) when v is below min or above max,
\* v coming from a numeric literal or from the resolver for character data
\* that matches MAXimum, MINimum, DEFault, UP or DOWN; an error from the
\* conversion or from the resolver is returned unchanged.
C17_NumericRange ==
    CalledRange =>
        /\ call.result.kind = "Ok" =>
              call.result = RangeSource /\ WithinRange(call.result.tok.val)
        /\ RangeSource.kind = "Err" => call.result = RangeSource
        /\ (RangeSource.kind = "Ok" /\ WithinRange(RangeSource.tok.val)) =>
              call.result = RangeSource
        /\ (RangeSource.kind = "Ok" /\ ~is_nan(RangeSource.tok.val)
              /\ ~WithinRange(RangeSource.tok.val)) =>
              call.result = ItemErr("DataOutOfRange")

\* ---- the device: *ESR?, *RST and *SRE --------------------------------------

Executed(o) == op = "dev" /\ call.op = o
Succeeded == call.result.kind = "Ok"
RaisedError == call.result.kind = "Err"
StatusOf(d) == <<d.esr, d.ese, d.sre, d.operation, d.questionable>>

\* C18: *ESR? responds with the value ESR held when the query started and
\* leaves ESR equal to 0; ESR leaves 0 only in a step in which a unit raises an
\* error, so a second *ESR? with no error raised in between responds 0.
EsrReadAndClear ==
    Executed("*ESR?") =>
        /\ call.result = Response(call.from.esr)
        /\ call.to.esr = 0
        /\ dev.esr = 0
EsrSetOnlyByError ==
    (op = "dev" /\ dev.esr = 0 /\ dev'.esr # 0) =>
        (nunits' = nunits + 1 /\ call'.result.kind = "Err" /\ call'.from = dev)
SecondEsrQuery ==
    (Executed("*ESR?") /\ call'.op = "*ESR?" /\ nunits' = nunits + 1) =>
        call'.result = Response(0)
RstKeepsStatus ==
    Executed("*RST") =>
        /\ Succeeded
        /\ StatusOf(call.to) = StatusOf(call.from)
RstThenEsrQuery ==
    (Executed("*RST") /\ call.to.esr = 32 /\ dev = call.to
        /\ call'.op = "*ESR?" /\ nunits' = nunits + 1) =>
        (call'.result = Response(32) /\ dev'.esr = 0)
HasBit(v, b) == (v \div b) % 2 = 1
Written == NatOf(args_data("u8", ArgToken(call.arg)).tok.val)
C20_SreBit6Masked ==
    /\ (Executed("*SRE") /\ Succeeded) =>
          call.to.sre = BitAndNot(Written, 64)
    /\ Executed("*SRE?") =>
          /\ call.result = Response(call.from.sre)
          /\ ~HasBit(call.result.tok.val, 64)

\* ---- the STATus accessors and the forms a handler lacks --------------------

RegOf(c) == c.arg[3]
OtherReg(reg) == IF reg = "operation" THEN "questionable" ELSE "operation"
Low15(v) == v % 32768

\* C21: [:EVENt]? responds the low 15 bits of the event field and leaves the
\* whole field 0, CONDition? responds the low 15 bits of condition and
\* changes nothing; neither changes enable, the filters or the other register.
C21_EventAndCondition ==
    /\ Executed("STAT:EVEN?") =>
          /\ call.result = Response(Low15(call.from[RegOf(call)].event))
          /\ call.to[RegOf(call)].event = 0
          /\ call.to = [call.from EXCEPT ![RegOf(call)].event = 0]
          /\ call.to[OtherReg(RegOf(call))] = call.from[OtherReg(RegOf(call))]
    /\ Executed("STAT:COND?") =>
          /\ call.result = Response(Low15(call.from[RegOf(call)].condition))
          /\ call.to = call.from
\* [:EVENt]? has read an event field with bit 15 set, and cleared it.
C21_Witness ==
    /\ Executed("STAT:EVEN?")
    /\ call.from[RegOf(call)].event = 32773
    /\ call.result = Response(5)
    /\ dev[RegOf(call)].event = 0
    /\ dev[RegOf(call)].condition = 32773

\* C22: ENABle, NTRansition and PTRansition store every value in 0..65535
\* without error and reject any other with DataOutOfRange; the query of the
\* same node responds the value stored modulo 32768.
Setters == {"STAT:ENAB", "STAT:NTR", "STAT:PTR"}
FieldOf(o) ==
    CASE o \in {"STAT:ENAB", "STAT:ENAB?"} -> "enable"
      [] o \in {"STAT:NTR", "STAT:NTR?"} -> "ntr_filter"
      [] OTHER -> "ptr_filter"
QueryOf(o) ==
    CASE o = "STAT:ENAB" -> "STAT:ENAB?"
      [] o = "STAT:NTR" -> "STAT:NTR?"
      [] OTHER -> "STAT:PTR?"
ValueOf(c) == IF c.arg[1] = "neg" THEN 0 - c.arg[2] ELSE c.arg[2]
SetterStores ==
    (op = "dev" /\ call.op \in Setters /\ call.arg[1] \in {"dec", "neg"}) =>
        IF ValueOf(call) \in 0..65535
        THEN /\ Succeeded
             /\ call.to[RegOf(call)][FieldOf(call.op)] = ValueOf(call)
        ELSE /\ call.result = ItemErr("DataOutOfRange")
             /\ call.to[RegOf(call)] = call.from[RegOf(call)]
QueryMasks ==
    (op = "dev" /\ call.op \in {QueryOf(o) : o \in Setters}) =>
        /\ call.result = Response(Low15(call.from[RegOf(call)][FieldOf(call.op)]))
        /\ call.result.tok.val <= 32767
        /\ call.to = call.from
SetThenQuery ==
    (op = "dev" /\ call.op \in Setters /\ Succeeded
        /\ call'.op = QueryOf(call.op) /\ call'.arg[3] = call.arg[3]
        /\ nunits' = nunits + 1) =>
        call'.result = Response(Low15(ValueOf(call)))
C22_SetGetRoundTrip ==
    /\ [](SetterStores /\ QueryMasks)
    /\ [][SetThenQuery]_vars
\* ENABle? has answered 32767 for a register whose enable field is 65535.
C22_Witness ==
    /\ Executed("STAT:ENAB?")
    /\ call.from.questionable.enable = 65535
    /\ RegOf(call) = "questionable"
    /\ call.result = Response(32767)

\* C23: the form a handler does not provide returns UndefinedHeader and
\* leaves ESE, SRE and both registers as they were; ESR is not cleared: the
\* only changes are the error's entry in the queue and its class bit 5.
MissingForms ==
    {"*CLS?", "*RST?", "*WAI?", "STAT:PRES?", "ABOR?",
     "*ESR", "*IDN", "*STB", "*TST", "STAT:EVEN", "STAT:COND"}
WithBit(v, b) == IF HasBit(v, b) THEN v ELSE v + b
Calls == 1..Len(out)
\* The byte the i-th call found first, and whether a byte follows it.
FirstByte(i) == before[i].chars[1]
HasSecond(i) == Len(before[i].chars) >= 2
SecondByte(i) == before[i].chars[2]
IsToken(i, type) == out[i].kind = "Ok" /\ out[i].tok.type = type

\* C26: every call of next() returns a token, an error or the end of input:
\* none panics.
C26_LexerTotal ==
    op = "lex" => \A i \in Calls : out[i].kind \in {"Ok", "Err"}

\* C27: a call of next() that returns a token or an error consumes at least
\* one byte.
C27_LexerProgress ==
    op = "lex" =>
        \A i \in Calls :
            out[i].kind \in {"Ok", "Err"} =>
                Len(After(i).chars) < Len(before[i].chars)

\* The calls of the unit of call i that precede it: those after the last
\* unit separator before i.
UnitStart(i) ==
    Max({0} \cup {j \in 1..(i - 1) : IsToken(j, "ProgramMessageUnitSeparator")}) + 1
MnemonicBefore(i) == \E j \in UnitStart(i)..(i - 1) : IsToken(j, "ProgramMnemonic")

\* C28: `*` gives HeaderCommonPrefix only in header position, before any
\* mnemonic of the unit and with an alphabetic byte next; any other `*` gives
\* an error.
C28_CommonPrefix ==
    op = "lex" =>
        \A i \in Calls :
            /\ IsToken(i, "HeaderCommonPrefix") => FirstByte(i) = 42
            /\ FirstByte(i) = 42 =>
                  IF /\ before[i].in_header
                     /\ ~MnemonicBefore(i)
                     /\ HasSecond(i) /\ is_ascii_alphabetic(SecondByte(i))
                  THEN IsToken(i, "HeaderCommonPrefix")
                  ELSE out[i].kind = "Err"

\* C29: `:` gives HeaderMnemonicSeparator only in header position, with no
\* `*` seen in the unit and with an alphabetic byte or nothing next, and
\* InvalidSeparator otherwise; after a `*` every `:` up to the next `;` is
\* an error.
StarBefore(i) == \E j \in UnitStart(i)..(i - 1) : FirstByte(j) = 42
C29_MnemonicSeparator ==
    op = "lex" =>
        \A i \in Calls :
            /\ IsToken(i, "HeaderMnemonicSeparator") => FirstByte(i) = 58
            /\ FirstByte(i) = 58 =>
                  /\ IF /\ before[i].in_header /\ ~before[i].in_common
                        /\ (HasSecond(i) => is_ascii_alphabetic(SecondByte(i)))
                     THEN IsToken(i, "HeaderMnemonicSeparator")
                     ELSE out[i] = ItemErr("InvalidSeparator")
                  /\ StarBefore(i) => out[i].kind = "Err"
\* A `:` followed by a letter was refused after `*A` in the same unit.
C29_Witness ==
    /\ op = "lex"
    /\ \E i \in Calls :
          /\ FirstByte(i) = 58 /\ HasSecond(i) /\ SecondByte(i) = 65
          /\ before[i].in_header /\ before[i].in_common
          /\ StarBefore(i)
          /\ out[i] = ItemErr("InvalidSeparator")
    /\ \E i \in Calls : IsToken(i, "HeaderMnemonicSeparator")

\* C30: `?` gives HeaderQuerySuffix only in header position with whitespace,
\* `;` or nothing next, and clears in_header; any other `?` gives
\* InvalidSeparator; a unit has at most one HeaderQuerySuffix.
C30_QuerySuffix ==
    op = "lex" =>
        /\ \A i \in Calls :
              /\ IsToken(i, "HeaderQuerySuffix") => FirstByte(i) = 63
              /\ FirstByte(i) = 63 =>
                    IF /\ before[i].in_header
                       /\ (HasSecond(i) =>
                              (is_ascii_whitespace(SecondByte(i)) \/ SecondByte(i) = 59))
                    THEN IsToken(i, "HeaderQuerySuffix") /\ ~After(i).in_header
                    ELSE out[i] = ItemErr("InvalidSeparator")
        /\ \A i, j \in Calls :
              (i < j /\ IsToken(i, "HeaderQuerySuffix") /\ IsToken(j, "HeaderQuerySuffix"))
                  => UnitStart(j) > i
\* Two units have each given a HeaderQuerySuffix, and a second `?` in a unit
\* was refused.
C30_Witness ==
    /\ op = "lex"
    /\ \E i, j \in Calls :
          i < j /\ IsToken(i, "HeaderQuerySuffix") /\ IsToken(j, "HeaderQuerySuffix")
    /\ \E i, j \in Calls :
          /\ i < j /\ IsToken(i, "HeaderQuerySuffix") /\ UnitStart(j) <= i
          /\ FirstByte(j) = 63 /\ out[j] = ItemErr("InvalidSeparator")


\* ---- the dispatcher: the header path and the errors of a unit -------------
\* `SENS:VOLT:DC?; *IDN? ; *RST; AC?`
ExampleMessage ==
    <<83, 69, 78, 83, 58, 86, 79, 76, 84, 58, 68, 67, 63, 59, 32,
      42, 73, 68, 78, 63, 32, 59, 32, 42, 82, 83, 84, 59, 32, 65, 67, 63>>
LeadOf(c) == c.arg[1]
NodeOf(c) == c.arg[2]
\* This step dispatches a unit, and the unit succeeds.
UnitSucceeds == call'.op = "unit" /\ nunits' = nunits + 1 /\ call'.result.kind = "Ok"
PathStep ==
    UnitSucceeds =>
        IF LeadOf(call') = "common" THEN path' = path
        ELSE /\ path' = Parent(NodeOf(call'))
             /\ Len(path') = Len(NodeOf(call')) - 1
             /\ LeadOf(call') = "relative" =>
                    /\ Len(NodeOf(call')) > Len(path)
                    /\ Take(NodeOf(call'), Len(path)) = path
ExampleResolves ==
    (buf = ExampleMessage /\ nunits = 4) =>
        /\ call.result.kind = "Ok"
        /\ NodeOf(call) = <<SENSe, VOLTage, AC>>

\* C24: after a successful unit that is not a common command the saved header
\* path is the parent of the resolved node, one shorter than the node is
\* deep; a unit without leading `:` resolves to a node below the saved path;
\* a common command leaves the path as it was; and the fourth unit of
\* `SENS:VOLT:DC?; *IDN? ; *RST; AC?` resolves to SENSe:VOLTage:AC.
C24_PathPreservation == []ExampleResolves /\ [][PathStep]_vars
C24_Witness ==
    /\ buf = ExampleMessage /\ nunits = 4
    /\ \A i \in 1..4 : out[i].kind = "Ok"
    /\ LeadOf(call) = "relative"
    /\ NodeOf(call) = <<SENSe, VOLTage, AC>>
    /\ path = <<SENSe, VOLTage>>

ClassBits == {32, 16, 8, 4}
UnitCount(b) == 1 + Cardinality({i \in 1..Len(b) : b[i] = Ch.semi})
\* The last unit failed: one class bit was set in ESR, one error enqueued.
OneErrorRecorded ==
    (call.op = "unit" /\ call.result.kind = "Err") =>
        /\ \E b \in ClassBits : call.to.esr = BitOr(call.from.esr, b)
        /\ call.to.errors = Append(call.from.errors, call.result.err)
\* The message ends in the unit `*RST`: at the end of the message every unit
\* of it has been dispatched, and the last one, `*RST`, has succeeded.
EndsInRst ==
    /\ Len(buf) > 4
    /\ SubSeq(buf, Len(buf) - 5, Len(buf)) = <<Ch.semi, 32, 42, 82, 83, 84>>
FollowingUnitExecuted ==
    (op = "run" /\ tk.chars = <<>> /\ EndsInRst) =>
        /\ Len(out) = UnitCount(buf)
        /\ Last(out).kind = "Ok"
        /\ NodeOf(call) = <<<<42, 82, 83, 84>>>>

\* C25: an erroneous unit of a program message sets one ESR class bit and
\* enqueues one error, and a well-formed unit after it in the message, here
\* `*RST`, is still executed.
C25_ErrorIsolation == OneErrorRecorded /\ FollowingUnitExecuted

\* ---- the lexer: the position of a token in its unit -----------------------
HeaderTokenTypes == {"ProgramMnemonic", "HeaderMnemonicSeparator", "HeaderQuerySuffix"}
DataTokenTypes ==
    {"CharacterProgramData", "DecimalNumericProgramData",
     "NonDecimalNumericProgramData", "SuffixProgramData", "StringProgramData",
     "ArbitraryBlockData", "ProgramDataSeparator"}
\* A digit, a sign, `.`, `#`, a quote, `/` or `,`.
IsDataByte(c) ==
    is_ascii_digit(c) \/ c \in {Ch.plus, Ch.minus, Ch.dot, Ch.hash, Ch.squote,
                                Ch.dquote, Ch.slash, Ch.comma}
\* An earlier call of the unit of call i gave the header separator or the
\* query suffix.
HeaderEndedBefore(i) ==
    \E j \in UnitStart(i)..(i - 1) :
        IsToken(j, "ProgramHeaderSeparator") \/ IsToken(j, "HeaderQuerySuffix")

\* C31: a mnemonic, a mnemonic separator and a query suffix are returned only
\* by a call that starts with in_header set, the data tokens and the data
\* separator only by one that starts with in_header clear; after the header
\* separator or the query suffix of a unit no call of that unit returns a
\* mnemonic; a digit, sign, `.`, `#`, quote, `/` or `,` met with in_header set
\* gives an error.
C31_TokenPosition ==
    op = "lex" =>
        \A i \in Calls :
            /\ (out[i].kind = "Ok" /\ out[i].tok.type \in HeaderTokenTypes)
                   => before[i].in_header
            /\ (out[i].kind = "Ok" /\ out[i].tok.type \in DataTokenTypes)
                   => ~before[i].in_header
            /\ HeaderEndedBefore(i) => ~IsToken(i, "ProgramMnemonic")
            /\ (before[i].in_header /\ IsDataByte(FirstByte(i)))
                   => out[i].kind = "Err"
C31_Witness ==
    /\ op = "lex"
    /\ \E i, j, k \in Calls :
          /\ i < j /\ j < k
          /\ IsToken(i, "ProgramMnemonic") /\ IsToken(j, "DecimalNumericProgramData")
          /\ before[k].in_header /\ FirstByte(k) = 49
          /\ out[k] = ItemErr("CommandHeaderError")

\* The items next() returns from the tokenizer t on while it reads a header:
\* up to the first error, the first token that leaves in_header clear, or
\* the end of the unit.
RECURSIVE header_items(_, _)
header_items_from(checks, r) ==
    IF r.item.kind = "None" THEN <<>>
    ELSE IF r.item.kind # "Ok" \/ ~r.t.in_header
              \/ r.item.tok.type \in {"ProgramMessageUnitSeparator",
                                      "ProgramMessageTerminator"}
    THEN <<r.item>>
    ELSE <<r.item>> \o header_items(r.t, checks)
header_items(t, checks) == header_items_from(checks, next(t, checks))

\* C32: a call that returns ProgramMessageUnitSeparator leaves in_header set,
\* in_common clear and no whitespace ahead, and the header that follows is
\* lexed as it is from a new tokenizer on the same bytes.
C32_UnitIndependence ==
    op = "lex" =>
        \A i \in Calls :
            IsToken(i, "ProgramMessageUnitSeparator") =>
                /\ After(i).in_header /\ ~After(i).in_common
                /\ After(i).chars # <<>> => ~is_ascii_whitespace(After(i).chars[1])
                /\ header_items(After(i), overflow_checks)
                       = header_items(Tokenizer_new(After(i).chars), overflow_checks)
C32_Witness ==
    /\ op = "lex"
    /\ \E i, j \in Calls :
          /\ IsToken(i, "DecimalNumericProgramData")
          /\ j = i + 1 /\ j < Len(out)
          /\ IsToken(j, "ProgramMessageUnitSeparator")
          /\ ~before[j].in_header /\ After(j).in_numeric
          /\ IsToken(j + 1, "ProgramMnemonic")

\* ---- the lexer: suffixes, terminators and header separators ---------------
\* An earlier call of the unit of call i returned a decimal number, and no
\* call between the two returned a data separator.
NumericBefore(i) ==
    \E j \in UnitStart(i)..(i - 1) :
        /\ IsToken(j, "DecimalNumericProgramData")
        /\ \A k \in (j + 1)..(i - 1) : ~IsToken(k, "ProgramDataSeparator")

\* C33: SuffixProgramData is returned only after a decimal number of the same
\* data item; an alphabetic argument with no such number before it, when it
\* is lexed, is CharacterProgramData.
C33_SuffixAfterNumber ==
    op = "lex" =>
        \A i \in Calls :
            /\ IsToken(i, "SuffixProgramData") => NumericBefore(i)
            /\ (/\ ~before[i].in_header /\ is_ascii_alphabetic(FirstByte(i))
                /\ ~NumericBefore(i) /\ out[i].kind = "Ok")
                   => IsToken(i, "CharacterProgramData")

\* C34: a call that returns ProgramMessageTerminator leaves the tokenizer as
\* Tokenizer::new builds it on the bytes that follow, and the header that
\* follows is lexed as it is from a new tokenizer on those bytes.
C34_TerminatorResets ==
    op = "lex" =>
        \A i \in Calls :
            IsToken(i, "ProgramMessageTerminator") =>
                /\ After(i) = Tokenizer_new(After(i).chars)
                /\ header_items(After(i), overflow_checks)
                       = header_items(Tokenizer_new(After(i).chars), overflow_checks)

\* An earlier call of the unit of call i returned a token of the header.
HeaderTokenBefore(i) ==
    \E j \in UnitStart(i)..(i - 1) :
        out[j].kind = "Ok"
        /\ out[j].tok.type \in HeaderTokenTypes \cup {"HeaderCommonPrefix"}

\* C35: ProgramHeaderSeparator is returned at most once in a unit and only
\* after a token of the unit's header, and character data only after a token
\* of the unit's header.
C35_HeaderSeparatorOnce ==
    op = "lex" =>
        \A i \in Calls :
            /\ IsToken(i, "ProgramHeaderSeparator") =>
                  /\ HeaderTokenBefore(i)
                  /\ \A j \in UnitStart(i)..(i - 1) :
                        ~IsToken(j, "ProgramHeaderSeparator")
            /\ IsToken(i, "CharacterProgramData") => HeaderTokenBefore(i)

\* ---- the lexer: the value of a non-decimal literal ------------------------
\* The radix a radix letter stands for, the alphanumeric bytes that follow
\* `#` and the letter, and the value of each as a digit.
RadixFor(c) ==
    CASE c \in {72, 104} -> 16 [] c \in {81, 113} -> 8 [] c \in {66, 98} -> 2
      [] OTHER -> 0
LiteralDigits(chars) == Take(Drop(chars, 2), CountWhile(Drop(chars, 2), is_ascii_alphanumeric))
DigitValue(c) == IF is_ascii_digit(c) THEN c - 48 ELSE to_ascii_lowercase(c) - 87
\* The positional value of digits in a radix, in units of 65536 and below:
\* hi is not reduced.
RECURSIVE Positional(_, _)
Positional(digits, radix) ==
    IF digits = <<>> THEN [hi |-> 0, lo |-> 0]
    ELSE LET acc == Positional(Take(digits, Len(digits) - 1), radix)
             low == acc.lo * radix + DigitValue(Last(digits))
         IN  [hi |-> acc.hi * radix + (low \div 65536), lo |-> low % 65536]

\* C36: a non-decimal literal with digits of its radix gives the positional
\* value of the digits, or an error when that value does not fit in 32 bits;
\* a literal without digits gives NumericDataError.
C36_NonDecimalValue ==
    op = "lex" =>
        \A i \in Calls :
            (/\ ~before[i].in_header /\ FirstByte(i) = Ch.hash /\ HasSecond(i)
             /\ RadixFor(SecondByte(i)) # 0) =>
                LET radix == RadixFor(SecondByte(i))
                    digits == LiteralDigits(before[i].chars)
                    exact == Positional(digits, radix)
                IN  IF digits = <<>> THEN out[i] = ItemErr("NumericDataError")
                    ELSE (\A k \in 1..Len(digits) : DigitValue(digits[k]) < radix) =>
                            IF exact.hi < 65536
                            THEN out[i].kind = "Ok" => out[i].tok.val = U32(exact.hi, exact.lo)
                            ELSE out[i].kind = "Err"

\* ---- C37 ----
\* What next_data answered on the tokenizer a call of next_decimal started
\* from, and what next() answers right after it.
NumericOf(c) == next_data(c.from, c.arg[1], overflow_checks)
FollowingOf(c) == next(NumericOf(c).t, overflow_checks)
IsNumeric(item) == item.kind = "Ok" /\ item.tok.type = "DecimalNumericProgramData"
IsSuffix(item) == item.kind = "Ok" /\ item.tok.type = "SuffixProgramData"
DecimalCall == call.op = "next_decimal" /\ IsNumeric(NumericOf(call).item)
C37_SuffixRead ==
    ~(/\ DecimalCall
      /\ IsSuffix(FollowingOf(call).item)
      /\ call.arg[2] = "kilo"
      /\ call.result.kind = "Ok"
      /\ call.result.tok.val.exp = NumericOf(call).item.tok.val.exp + 3)
C37_PeekError ==
    ~(/\ DecimalCall
      /\ FollowingOf(call).item.kind = "Err")

\* ---- C38 ----
\* The field a register-setting unit writes, and the largest value it takes.
SetterField ==
    [u \in {"*ESE", "*SRE", "STAT:ENAB", "STAT:NTR", "STAT:PTR"} |->
        CASE u = "*ESE" -> "ese"
          [] u = "*SRE" -> "sre"
          [] u = "STAT:ENAB" -> "enable"
          [] u = "STAT:NTR" -> "ntr_filter"
          [] OTHER -> "ptr_filter"]
SetterMax(u) == IF u \in {"*ESE", "*SRE"} THEN 255 ELSE 65535
SetField(d, c) ==
    IF c.op \in {"*ESE", "*SRE"} THEN d[SetterField[c.op]]
    ELSE d[c.arg[3]][SetterField[c.op]]
\* The argument of the unit is missing, not a number, negative or too large.
BadArgument(c) ==
    \/ c.arg[1] \in {"none", "char", "neg"}
    \/ c.arg[1] \in {"dec", "hex"} /\ c.arg[2] > SetterMax(c.op)
\* C38: a register-setting unit (*ESE, *SRE, STATus ...:ENABle, :NTRansition,
\* :PTRansition) whose argument is missing, of the wrong type or out of range
\* answers an error and leaves the register it sets as it was.
C38_SetterErrorKeepsRegister ==
    (call.op \in DOMAIN SetterField /\ BadArgument(call)) =>
        /\ call.result.kind = "Err"
        /\ SetField(call.to, call) = SetField(call.from, call)
\* ENABle of OPERation held 5 when a unit without argument was refused.
C38_Witness ==
    /\ call.op = "STAT:ENAB" /\ call.arg = <<"none", 0, "operation">>
    /\ call.from.operation.enable = 5
    /\ call.to.operation.enable = 5
    /\ call.result = ItemErr("MissingParameter")
C38_WrongType ==
    ~(/\ call.op = "*ESE" /\ call.arg[1] = "char" /\ call.from.ese = 64
      /\ call.result.kind = "Err")
C38_OutOfRange ==
    ~(/\ call.op = "STAT:PTR" /\ call.arg = <<"dec", 65536, "questionable">>
      /\ call.from.questionable.ptr_filter = 65535
      /\ call.result = ItemErr("DataOutOfRange"))

\* ---- C39 ----
StatSetters == {"STAT:ENAB", "STAT:NTR", "STAT:PTR"}
StatGetters == {"STAT:ENAB?", "STAT:NTR?", "STAT:PTR?"}
\* The device d with the field of the register the unit c names taken from e.
WithOwnField(d, e, c) ==
    [d EXCEPT ![c.arg[3]][SetterField[c.op]] = e[c.arg[3]][SetterField[c.op]]]
\* C39: a successful STATus ...:ENABle, :NTRansition or :PTRansition unit
\* leaves the device as it was but for its own field of its own register
\* (the other four fields, the other register, ESR, ESE, SRE and the error
\* queue keep their values), and the query forms of the three nodes leave
\* the whole device as it was.
C39_AccessorFrame ==
    /\ (call.op \in StatSetters /\ call.result.kind = "Ok") =>
           call.to = WithOwnField(call.from, call.to, call)
    /\ call.op \in StatGetters =>
           call.to = call.from /\ call.result.kind = "Ok"
\* NTRansition of QUEStionable was set to 5 on a device whose ESE, error
\* queue and OPERation enable held values; in another run a query ran on a
\* device with a set filter.
C39_Witness ==
    /\ call.op = "STAT:NTR" /\ call.arg = <<"dec", 5, "questionable">>
    /\ call.result.kind = "Ok"
    /\ call.from.questionable.ntr_filter = 0
    /\ call.to.questionable.ntr_filter = 5
    /\ call.from.ese # 0
    /\ call.from.errors # <<>>
    /\ call.from.operation.enable # 0
C39_QueryRan ==
    ~(/\ call.op = "STAT:PTR?" /\ call.arg[3] = "operation"
      /\ call.from.operation.ptr_filter = 65535
      /\ call.from.esr # 0)

\* ---- C40 ----
\* The byte v with bit 4 set.
WithBit4(v) == IF (v \div 16) % 2 = 1 THEN v ELSE v + 16
\* C40: a *STB? unit responds the status byte read_stb() gives for the
\* device, with bit 4 (16) set when the flag mav of the context is true and
\* as it is otherwise, and leaves ESR, ESE, SRE, both event registers and
\* the error queue as they were.
C40_StatusByteQuery ==
    call.op = "*STB?" =>
        /\ call.result = Response(IF call.arg[3] THEN WithBit4(read_stb(call.from))
                                  ELSE read_stb(call.from))
        /\ call.to = call.from
\* *STB? ran with mav set on a device whose status byte was not zero, and
\* responded that byte with 16 added.
C40_Witness ==
    /\ call.op = "*STB?" /\ call.arg[3]
    /\ read_stb(call.from) \in {4, 32 + 4, 128}
    /\ call.result = Response(read_stb(call.from) + 16)
    /\ call.to = call.from
C40_WithoutMav ==
    ~(/\ call.op = "*STB?" /\ ~call.arg[3]
      /\ call.from.errors # <<>> /\ call.from.esr # 0
      /\ call.result = Response(4))
C40_Summary ==
    ~(/\ call.op = "*STB?" /\ read_stb(call.from) \in {128, 8, 32, 36})

=============================================================================
